---- MODULE Spec2Model ----
(***************************************************************************)
(* Agent-collector live link of monitaur.                                  *)
(*                                                                         *)
(* Collector side (backend/handlers, WebSocketHandler): the connection     *)
(* registry, HandleAgentConnection, the per-connection reader              *)
(* (handleAgentMessages) and writer (handleAgentWrites), the reaper        *)
(* (cleanupStaleConnections) and the push interface (SendMessageToAgent).  *)
(* Agent side (agent/client, Client): Connect, handleDisconnection,        *)
(* StartHeartbeat, ListenForMessages, SendMetrics/SendAlert and the        *)
(* collection loop of agent/main.go.                                       *)
(*                                                                         *)
(* Collector goroutines interleave at their blocking operations and at     *)
(* every lock acquisition; straight-line code between two such points is   *)
(* one step.  The client guards c.conn and c.reconnectAttempts with no     *)
(* lock, so its goroutines interleave at every access to those fields.     *)
(* Times are in seconds, percentages in tenths of a percent.               *)
(***************************************************************************)
EXTENDS Integers, Sequences, FiniteSets, TLC

\* ------------------------------------------------------------------ bounds
MaxConns == 2
MaxTime == 180
TickStep == 60
MaxAttempts == 4
MaxCycles == 2
MaxAgentConns == 3

ConnIds == 1..MaxConns
NoConn == 0
Servers == {1, 2}
Tokens == {"", "t1", "t2", "bad"}
Times == 0..(MaxTime + TickStep)

\* ------------------------------------------------------- program constants
ReadDeadline == 60
StaleWindow == 120
QueueCap == 256
CpuWarnPercent == 90
MemWarnPercent == 95
DiskWarnPercent == 95
ReconnectInterval == 5
MaxReconnectDelay == 60

\* ------------------------------------------------------------------- state
VARIABLES
    conn,         \* the AgentConnection objects and the goroutines bound to them
    connections,  \* h.connections: serverID -> connection (NoConn: no entry)
    status,       \* servers.status column
    now,          \* wall clock
    resp,         \* status code of the last HTTP response of HandleAgentConnection
    crashed,      \* an unrecovered panic in a collector goroutine
    push,         \* the caller of SendMessageToAgent
    journal,      \* envelopes read and records stored, in order, where observed
    mutex,        \* h.mutex, and who is between its Lock and its Unlock, where observed
    \* ---- agent
    proc,         \* the agent process: "init", "running", "fatal", "panic"
    aconn,        \* c.conn (NoAConn: nil)
    attempts,     \* c.reconnectAttempts
    thr,          \* the goroutines started for the listener and the heartbeat
    link,         \* the transport of each agent-side connection object
    reachable,    \* whether a dial of the collector succeeds
    mainT,        \* the collection loop of main
    wire,         \* what the agent has written to a live transport
    lost,         \* what was refused or skipped because the client was not connected
    calls,        \* calls of handleDisconnection since the last successful Connect
    cfg           \* cfg.AlertThresholds, in tenths of a percent

cvars == <<conn, connections, status, now, resp, crashed, push, journal, mutex>>

avars == <<proc, aconn, attempts, thr, link, reachable, mainT, wire, lost, calls, cfg>>

vars == <<conn, connections, status, now, resp, crashed, push, journal, mutex,
          proc, aconn, attempts, thr, link, reachable, mainT, wire, lost, calls, cfg>>

\* ---------------------------------------------------------------- envelopes
\* What one websocket text frame holds, as far as ReadJSON and the two
\* message handlers distinguish it.  json: whether the frame decodes into
\* models.AgentMessage; data: "object" (a JSON object that decodes into the
\* payload struct), "badfield" (an object with a field of the wrong JSON
\* type), "other" (not a JSON object).
Sample(c, m, d) == [cpu |-> c, mem |-> m, disk |-> d]

NoSample == Sample(0, 0, 0)

Samples ==
    { Sample(500, 400, 300), Sample(925, 400, 300), Sample(500, 960, 300),
      Sample(500, 400, 960), Sample(900, 950, 950) }

Frame(j, t, d, s) == [json |-> j, type |-> t, data |-> d, sample |-> s]

NoMsg == Frame("none", "none", "none", NoSample)

Frames ==
    { Frame("malformed", "none", "none", NoSample),
      Frame("ok", "unknown", "object", NoSample),
      Frame("ok", "alert", "object", NoSample),
      Frame("ok", "alert", "other", NoSample),
      Frame("ok", "alert", "badfield", NoSample),
      Frame("ok", "metrics", "other", NoSample),
      Frame("ok", "metrics", "badfield", NoSample) }
    \cup { Frame("ok", "metrics", "object", s) : s \in Samples }

\* conn.ReadJSON on a frame that arrived: the decoded message, or an error.
ReadJSON(f) == IF f.json = "ok" THEN f ELSE NoMsg

\* ------------------------------------------------------------ the database
GetServerByToken(token) ==
    CASE token = "t1" -> 1
      [] token = "t2" -> 2
      [] OTHER -> 0

UpdateServerStatusLost(st, serverID, value) == st

UpdateServerStatus(st, serverID, value) == [st EXCEPT ![serverID] = value]

UpdateServerLastSeen(st, serverID) == [st EXCEPT ![serverID] = "online"]

\* --------------------------------------------------------- connection objects
FreeConn ==
    [ server |-> 0, token |-> "", lastPing |-> 0, deadline |-> 0,
      transport |-> "none", sendClosed |-> FALSE, queue |-> 0,
      hpc |-> "none", rpc |-> "none", wpc |-> "none", msg |-> NoMsg,
      rerr |-> "none" ]

Created(c) == conn[c].hpc # "none"

\* Connection objects are numbered in the order of their creation; once all
\* are in use, the last one stands for "none left".
NextFree ==
    IF \E c \in ConnIds : ~Created(c)
    THEN CHOOSE c \in ConnIds : ~Created(c) /\ \A d \in ConnIds : d < c => Created(d)
    ELSE MaxConns

\* h.mutex (a sync.RWMutex): w is the goroutine holding it exclusively,
\* r the goroutines holding it shared; phase says where a goroutine is in
\* a locked region: "out", "in" (its Lock or RLock has returned), "done"
\* (it has accessed the map and not yet unlocked).
LockProcs ==
    { <<op, c>> : op \in {"register", "unregister"}, c \in ConnIds }
    \cup { <<"cleanup", 0>>, <<"send", 0>>, <<"agents", 0>>, <<"isconnected", 0>> }

NoHolder == <<"none", 0>>

MutexFree == [w |-> NoHolder, r |-> {}, phase |-> [p \in LockProcs |-> "out"]]

\* The goroutine p has accessed h.connections.
Accessed(mx, p) ==
    IF mx.phase[p] = "in" THEN [mx EXCEPT !.phase[p] = "done"] ELSE mx

CBase ==
    /\ mutex = MutexFree
    /\ conn = [c \in ConnIds |-> FreeConn]
    /\ connections = [s \in Servers |-> NoConn]
    /\ status = [s \in Servers |-> "offline"]
    /\ now = 0
    /\ resp = 0
    /\ crashed = FALSE
    /\ push = [pc |-> "idle", server |-> 0, c |-> NoConn, marshal |-> TRUE, result |-> "none"]

\* The journal of a session: on says whether the specification observes
\* the order of reads and of stored records and the notification tasks
\* started; where it does not, the journal stays empty.  rows: the rows of
\* the metrics and alerts tables, each under its server_id.
Journal(on) ==
    [on |-> on, rcvd |-> <<>>, stored |-> <<>>, mails |-> <<>>, rows |-> <<>>]

CInit ==
    /\ CBase
    /\ journal = Journal(FALSE)

\* ------------------------------------------------------ HandleAgentConnection
HandshakeCodeNoLookup(token, dbErr, upgradeOK) ==
    IF token = "" THEN 400
    ELSE IF ~upgradeOK THEN 426
    ELSE 101

\* Lines 778-811: the response of the handshake; 101 is the upgrade.
\* dbErr: the lookup fails with an error other than "record not found";
\* upgradeOK: upgrader.Upgrade succeeds.
HandshakeCode(token, dbErr, upgradeOK) ==
    IF token = "" THEN 400
    ELSE IF dbErr THEN 500
    ELSE IF GetServerByToken(token) = 0 THEN 401
    ELSE IF ~upgradeOK THEN 426
    ELSE 101

\* Lines 776-819: token check, lookup, upgrade, construction of agentConn.
\* c: the connection object the call allocates if it gets that far.
HandleAgentConnection(c, token, dbErr, upgradeOK) ==
    /\ ~crashed
    /\ c = NextFree
    /\ resp' = HandshakeCode(token, dbErr, upgradeOK)
    /\ IF resp' = 101 THEN
            /\ ~Created(c)
            /\ conn' = [conn EXCEPT ![c] =
                          [ FreeConn EXCEPT !.server = GetServerByToken(token),
                                            !.token = token,
                                            !.lastPing = now, !.transport = "open",
                                            !.hpc = "register" ]]
       ELSE UNCHANGED conn
    /\ UNCHANGED <<connections, status, now, crashed, push>>
    /\ UNCHANGED <<avars, journal, mutex>>

\* Lines 821-824: h.connections[server.ID] = agentConn, under the write lock.
RegisterEntry(reg, serverID, c) == [reg EXCEPT ![serverID] = c]

Register(c) ==
    /\ ~crashed
    /\ conn[c].hpc = "register"
    /\ connections' = RegisterEntry(connections, conn[c].server, c)
    /\ conn' = [conn EXCEPT ![c].hpc = "lastseen"]
    /\ UNCHANGED <<status, now, resp, crashed, push>>
    /\ UNCHANGED <<avars, journal>>
    /\ mutex' = Accessed(mutex, <<"register", c>>)

\* Lines 826-833: UpdateServerLastSeen, then the reader and the writer start.
StartLoops(c) ==
    /\ ~crashed
    /\ conn[c].hpc = "lastseen"
    /\ status' = UpdateServerLastSeen(status, conn[c].server)
    /\ conn' = [conn EXCEPT ![c].hpc = "done", ![c].rpc = "start", ![c].wpc = "run"]
    /\ UNCHANGED <<connections, now, resp, crashed, push>>
    /\ UNCHANGED <<avars, journal, mutex>>

\* ------------------------------------------------------ handleAgentMessages
\* Lines 843-849: the first read deadline; the pong handler is installed.
ReaderStart(c) ==
    /\ ~crashed
    /\ conn[c].rpc = "start"
    /\ conn' = [conn EXCEPT ![c].deadline = now + ReadDeadline, ![c].rpc = "read"]
    /\ UNCHANGED <<connections, status, now, resp, crashed, push>>
    /\ UNCHANGED <<avars, journal, mutex>>

\* A read on the transport can deliver something: the transport is open and
\* the read deadline has not expired.
Readable(c) == conn[c].transport = "open" /\ now <= conn[c].deadline

\* Lines 845-849: the pong handler, run by the reader inside ReadJSON.
PongHandler(c) ==
    /\ ~crashed
    /\ conn[c].rpc = "read"
    /\ Readable(c)
    /\ conn' = [conn EXCEPT ![c].lastPing = now, ![c].deadline = now + ReadDeadline]
    /\ UNCHANGED <<connections, status, now, resp, crashed, push>>
    /\ UNCHANGED <<avars, journal, mutex>>

\* An envelope was read on connection c.
Received(j, c, m) == IF j.on THEN [j EXCEPT !.rcvd = Append(@, <<c, m>>)] ELSE j

\* Lines 852-859: ReadJSON returns a message, or an error that ends the loop.
\* A frame that does not decode is an error of ReadJSON like any other.
ReadMessage(c, f) ==
    /\ ~crashed
    /\ conn[c].rpc = "read"
    /\ Readable(c)
    /\ conn' = IF ReadJSON(f) = NoMsg
                THEN [conn EXCEPT ![c].rpc = "unreg", ![c].rerr = "decode"]
                ELSE [conn EXCEPT ![c].rpc = "dispatch", ![c].msg = ReadJSON(f)]
    /\ journal' = IF ReadJSON(f) = NoMsg THEN journal ELSE Received(journal, c, ReadJSON(f))
    /\ UNCHANGED <<connections, status, now, resp, crashed, push>>
    /\ UNCHANGED <<avars, mutex>>

\* Lines 853-859: the read fails (transport closed or broken, deadline passed).
ReadError(c) ==
    /\ ~crashed
    /\ conn[c].rpc = "read"
    /\ ~Readable(c)
    /\ conn' = [conn EXCEPT ![c].rpc = "unreg", ![c].rerr = "io"]
    /\ UNCHANGED <<connections, status, now, resp, crashed, push>>
    /\ UNCHANGED <<avars, journal, mutex>>

\* Lines 957-961: the coarse status of a sample.
MetricsStatus(s) ==
    IF \/ s.cpu > CpuWarnPercent * 10
       \/ s.mem > MemWarnPercent * 10
       \/ s.disk > DiskWarnPercent * 10
    THEN "warning" ELSE "online"

OwnerFromEnvelope(cn, m) == GetServerByToken(m.token)

\* Lines 930, 961, 991, 872: the server ID a handler writes under is
\* agentConn.server.ID, the server the handshake resolved; message.Token
\* and message.ServerName are decoded and never read.
Owner(cn, m) == cn.server

\* What of m goes into a row: the type and the payload of an envelope; a
\* payload that was decoded already (lines 915-924) as it is.
Payload(m) ==
    IF "sample" \in DOMAIN m THEN [type |-> m.type, data |-> m.sample]
    ELSE [type |-> "metrics", data |-> m]

\* Lines 928-950, 990-998: the row built from the payload.
Row(serverID, m) == [server |-> serverID, payload |-> Payload(m)]

CreateRecordFirst(j, c, m) ==
    IF j.on THEN [j EXCEPT !.stored = <<<<c, m>>>> \o @,
                           !.rows = <<Row(Owner(conn[c], m), m)>> \o @]
    ELSE j

\* postgres.go 202-204, 226-228: CreateMetric and CreateAlert insert one
\* row; the call returns when the row is in its table.
CreateRecord(j, c, m) ==
    IF j.on THEN [j EXCEPT !.stored = Append(@, <<c, m>>),
                           !.rows = Append(@, Row(Owner(conn[c], m), m))]
    ELSE j

StartEmailAlways(j, c, m, stored) ==
    IF j.on /\ m.type = "alert"
    THEN [j EXCEPT !.mails = Append(@, [c |-> c, state |-> "started"])]
    ELSE j

\* Line 1010: go h.sendEmailAlert(...), reached only when CreateAlert
\* returned nil; the handler returns at once.
StartEmail(j, c, m, stored) ==
    IF j.on /\ m.type = "alert" /\ stored
    THEN [j EXCEPT !.mails = Append(@, [c |-> c, state |-> "started"])]
    ELSE j

\* Lines 909-953, 971-1010: what a handler stores for the message m of
\* connection c: nothing if the payload does not decode or the insert
\* fails; a stored alert starts its notification.
StoreMessage(j, c, m, dbOK) ==
    LET stored == m.type \in {"metrics", "alert"} /\ m.data = "object" /\ dbOK
    IN StartEmail(IF stored THEN CreateRecord(j, c, m) ELSE j, c, m, stored)

\* Lines 906-966: handleMetricsMessage; dbOK: CreateMetric succeeds.
handleMetricsMessage(st, serverID, m, dbOK) ==
    IF m.data # "object" THEN st
    ELSE IF ~dbOK THEN st
    ELSE UpdateServerStatus(st, serverID, MetricsStatus(m.sample))

\* Lines 968-1011: handleAlertMessage writes no status.
handleAlertMessage(st, serverID, m, dbOK) == st

AfterHandlerStrict(m, dbOK) == IF dbOK THEN "lastseen" ELSE "unreg"

\* Lines 861-872: the handlers return nothing, so whatever happened in
\* one the reader goes on to UpdateServerLastSeen.
AfterHandler(m, dbOK) == "lastseen"

\* Lines 861-869: the switch on message.Type, as far as the status goes.
HandlerStatus(st, cn, m, dbOK) ==
    CASE m.type = "metrics" -> handleMetricsMessage(st, Owner(cn, m), m, dbOK)
      [] m.type = "alert" -> handleAlertMessage(st, Owner(cn, m), m, dbOK)
      [] OTHER -> st

\* Lines 861-869: the switch on message.Type.
Dispatch(c, dbOK) ==
    /\ ~crashed
    /\ conn[c].rpc = "dispatch"
    /\ status' = HandlerStatus(status, conn[c], conn[c].msg, dbOK)
    /\ journal' = StoreMessage(journal, c, conn[c].msg, dbOK)
    /\ conn' = [conn EXCEPT ![c].rpc = AfterHandler(conn[c].msg, dbOK)]
    /\ UNCHANGED <<connections, now, resp, crashed, push>>
    /\ UNCHANGED <<avars, mutex>>

\* Lines 871-873: h.db.UpdateServerLastSeen, then the next read.
LastSeen(c) ==
    /\ ~crashed
    /\ conn[c].rpc = "lastseen"
    /\ status' = UpdateServerLastSeen(status, Owner(conn[c], conn[c].msg))
    /\ conn' = [conn EXCEPT ![c].rpc = "read", ![c].msg = NoMsg]
    /\ UNCHANGED <<connections, now, resp, crashed, push>>
    /\ UNCHANGED <<avars, journal, mutex>>

\* Lines 1274-1287: unregisterConnection, under the write lock.  The test is
\* on the presence of an entry for the server ID, whatever it points at.
UnregisterHit(reg, serverID, c) == reg[serverID] # NoConn

unregisterConnection(c) ==
    /\ ~crashed
    /\ conn[c].rpc = "unreg"
    /\ IF UnregisterHit(connections, conn[c].server, c) THEN
            /\ connections' = [connections EXCEPT ![conn[c].server] = NoConn]
            /\ IF conn[c].sendClosed THEN
                    \* close of a closed channel
                    /\ crashed' = TRUE
                    /\ conn' = [conn EXCEPT ![c].rpc = "done"]
                    /\ UNCHANGED status
               ELSE
                    /\ conn' = [conn EXCEPT ![c].sendClosed = TRUE, ![c].rpc = "close"]
                    /\ status' = UpdateServerStatus(status, conn[c].server, "offline")
                    /\ UNCHANGED crashed
       ELSE
            /\ conn' = [conn EXCEPT ![c].rpc = "close"]
            /\ UNCHANGED <<connections, status, crashed>>
    /\ UNCHANGED <<now, resp, push>>
    /\ UNCHANGED <<avars, journal>>
    /\ mutex' = Accessed(mutex, <<"unregister", c>>)

\* Line 840: agentConn.conn.Close() of the deferred teardown.
ReaderClose(c) ==
    /\ ~crashed
    /\ conn[c].rpc = "close"
    /\ conn' = [conn EXCEPT ![c].transport = "closed", ![c].rpc = "done"]
    /\ UNCHANGED <<connections, status, now, resp, crashed, push>>
    /\ UNCHANGED <<avars, journal, mutex>>

\* -------------------------------------------------------- handleAgentWrites
WriteFailsOnError(c, ok) == ~ok

\* A write on the transport: fails once the collector has closed it; on a
\* transport that is open or broken it succeeds or fails (write deadline,
\* reset by the peer), which the caller draws as ok.
WriteFails(c, ok) == conn[c].transport = "closed" \/ ~ok

\* Lines 883-893: a queued message is taken and written.
WriterSend(c, ok) ==
    /\ ~crashed
    /\ conn[c].wpc = "run"
    /\ conn[c].queue > 0
    /\ conn' = [conn EXCEPT ![c].queue = @ - 1,
                             ![c].wpc = IF WriteFails(c, ok) THEN "done" ELSE "run"]
    /\ UNCHANGED <<connections, status, now, resp, crashed, push>>
    /\ UNCHANGED <<avars, journal, mutex>>

\* Lines 883-888: the queue is closed and drained: close frame, return.
WriterQueueClosed(c) ==
    /\ ~crashed
    /\ conn[c].wpc = "run"
    /\ conn[c].queue = 0
    /\ conn[c].sendClosed
    /\ conn' = [conn EXCEPT ![c].wpc = "done"]
    /\ UNCHANGED <<connections, status, now, resp, crashed, push>>
    /\ UNCHANGED <<avars, journal, mutex>>

\* Lines 895-900: the 54 s ticker fires and a ping is written.
WriterPing(c, ok) ==
    /\ ~crashed
    /\ conn[c].wpc = "run"
    /\ conn' = [conn EXCEPT ![c].wpc = IF WriteFails(c, ok) THEN "done" ELSE "run"]
    /\ UNCHANGED <<connections, status, now, resp, crashed, push>>
    /\ UNCHANGED <<avars, journal, mutex>>

\* ---------------------------------------------------- cleanupStaleConnections
IsStaleInclusive(t, lastPing) == t - lastPing >= StaleWindow

\* Line 1309: the staleness test of one entry.
IsStale(t, lastPing) == t - lastPing > StaleWindow

StaleServers ==
    { s \in Servers : connections[s] # NoConn /\ IsStale(now, conn[connections[s]].lastPing) }

EvictClosingQueue(cn) == [cn EXCEPT !.transport = "closed", !.sendClosed = TRUE]

\* Line 1310: conn.conn.Close() is all the reaper does to the connection
\* object; agentConn.send is left as it is.
Evict(cn) == [cn EXCEPT !.transport = "closed"]

\* Lines 1303-1316: one sweep, under the write lock.  The ticker of
\* cleanupRoutine (lines 1290-1300) decides when; its phase is not fixed
\* relative to the clock of the model.
cleanupStaleConnections ==
    /\ ~crashed
    /\ conn' = [c \in ConnIds |->
                  IF \E s \in StaleServers : connections[s] = c
                  THEN Evict(conn[c])
                  ELSE conn[c]]
    /\ connections' = [s \in Servers |-> IF s \in StaleServers THEN NoConn ELSE connections[s]]
    /\ status' = [s \in Servers |-> IF s \in StaleServers THEN "offline" ELSE status[s]]
    /\ UNCHANGED <<now, resp, crashed, push>>
    /\ UNCHANGED <<avars, journal>>
    /\ mutex' = Accessed(mutex, <<"cleanup", 0>>)

\* --------------------------------------------------------- SendMessageToAgent
\* Lines 1320-1326: the lookup under the read lock.  marshal: json.Marshal
\* of the message succeeds.
SendLookup(serverID, marshal) ==
    /\ ~crashed
    /\ push.pc = "idle"
    /\ push' = IF connections[serverID] = NoConn
               THEN [pc |-> "idle", server |-> serverID, c |-> NoConn,
                     marshal |-> TRUE, result |-> "ErrAgentNotConnected"]
               ELSE [pc |-> "enqueue", server |-> serverID, c |-> connections[serverID],
                     marshal |-> marshal, result |-> "none"]
    /\ UNCHANGED <<conn, connections, status, now, resp, crashed>>
    /\ UNCHANGED <<avars, journal>>
    /\ mutex' = Accessed(mutex, <<"send", 0>>)

\* Lines 1339-1345: the outcome of the non-blocking send on conn.send.
SendOutcome(c) ==
    IF conn[c].sendClosed THEN "panic"
    ELSE IF conn[c].queue < QueueCap THEN "ok"
    ELSE "ErrAgentNotResponding"

\* Lines 1328-1345: marshal, then the select on conn.send, after the lock
\* has been released.
SendEnqueue ==
    /\ ~crashed
    /\ push.pc = "enqueue"
    /\ LET c == push.c
           res == IF ~push.marshal THEN "marshal error" ELSE SendOutcome(c)
       IN /\ push' = [push EXCEPT !.pc = "idle", !.result = res]
          /\ conn' = IF res = "ok" THEN [conn EXCEPT ![c].queue = @ + 1] ELSE conn
    /\ UNCHANGED <<connections, status, now, resp, crashed>>
    /\ UNCHANGED <<avars, journal, mutex>>

\* ---------------------------------------------------------------- environment
\* The clock advances.
Tick ==
    /\ ~crashed
    /\ now + TickStep <= MaxTime
    /\ now' = now + TickStep
    /\ UNCHANGED <<conn, connections, status, resp, crashed, push>>
    /\ UNCHANGED <<avars, journal, mutex>>

\* The peer or the network closes the transport of a connection.
TransportFail(c) ==
    /\ ~crashed
    /\ conn[c].transport = "open"
    /\ conn' = [conn EXCEPT ![c].transport = "broken"]
    /\ UNCHANGED <<connections, status, now, resp, crashed, push>>
    /\ UNCHANGED <<avars, journal, mutex>>

\* ====================================================================== agent
AConnIds == 1..MaxAgentConns
NoAConn == 0
Threads == {"L", "H"}

\* Default thresholds of the agent's configuration, in tenths of a percent.
Thresholds == [cpu |-> 800, mem |-> 850, disk |-> 900]

AgentSamples == { Sample(925, 400, 300) }

\* A goroutine of the client: where it is, the connection it holds, the
\* counter value it has loaded, the delay it computed, the time it has
\* slept since its previous Connect attempt; k numbers its
\* handleDisconnection among those since the last successful Connect.
Idle == [pc |-> "none", delay |-> 0, ref |-> NoAConn, reg |-> 0, k |-> 0, slept |-> 0]

AInit ==
    /\ proc = "init"
    /\ aconn = NoAConn
    /\ attempts = 0
    /\ thr = [t \in Threads |-> Idle]
    /\ link = [id \in AConnIds |-> "free"]
    /\ reachable = TRUE
    /\ mainT = [pc |-> "none", cycle |-> 0, sample |-> NoSample, alerts |-> <<>>, err |-> "none"]
    /\ wire = {}
    /\ lost = {}
    /\ calls = 0
    /\ cfg = Thresholds

Init == CInit /\ AInit

\* A connection object nothing refers to any more is out of the model.
Referenced(id, ac, th) == id = ac \/ \E t \in Threads : th[t].ref = id

Collect(lk, ac, th) ==
    [id \in AConnIds |-> IF lk[id] = "free" \/ Referenced(id, ac, th) THEN lk[id] ELSE "gone"]

\* Connection objects are numbered in the order the dials make them.
NewAConn == Cardinality({id \in AConnIds : link[id] # "free"}) + 1

\* main.go lines 192-205: the first Connect; a failure is fatal, a success
\* starts the heartbeat, the listener and the collection loop.
StartupConnect ==
    /\ proc = "init"
    /\ IF reachable THEN
            /\ proc' = "running"
            /\ aconn' = 1
            /\ link' = [link EXCEPT ![1] = "up"]
            /\ thr' = [thr EXCEPT !["H"].pc = "hb", !["L"].pc = "l_start"]
            /\ mainT' = [mainT EXCEPT !.pc = "wait"]
       ELSE
            /\ proc' = "fatal"
            /\ UNCHANGED <<aconn, link, thr, mainT>>
    /\ UNCHANGED <<attempts, reachable, wire, lost, calls>>
    /\ UNCHANGED <<cvars, cfg>>

\* The steps of one execution of handleDisconnection (lines 136-159, with
\* the Connect it calls).
HdPcs == {"hd_nil", "hd_load", "hd_store", "hd_delay", "hd_sleep", "hd_connect",
          "c_assign", "c_reset"}

OnTransportErrorOnce(th, t) ==
    IF \E u \in Threads \ {t} : th[u].pc \in HdPcs THEN "exit" ELSE "hd_nil"

\* Lines 128-131 and 174-177: a loop whose write or read fails calls
\* handleDisconnection; nothing tells it whether the other loop is
\* already in one.
OnTransportError(th, t) == "hd_nil"

\* ------------------------------------------------------------ ListenForMessages
\* Lines 167-169: the nil test on entry.
ListenStart(t) ==
    /\ proc = "running"
    /\ thr[t].pc = "l_start"
    /\ thr' = [thr EXCEPT ![t].pc = IF aconn = NoAConn THEN "exit" ELSE "l_enter"]
    /\ UNCHANGED <<proc, aconn, attempts, link, reachable, mainT, wire, lost, calls>>
    /\ UNCHANGED <<cvars, cfg>>

\* Line 173: c.conn is read and ReadJSON is entered on it; on a nil
\* connection that is a nil dereference.
ListenEnter(t) ==
    /\ proc = "running"
    /\ thr[t].pc = "l_enter"
    /\ IF aconn = NoAConn
       THEN proc' = "panic" /\ UNCHANGED thr
       ELSE thr' = [thr EXCEPT ![t].pc = "listen", ![t].ref = aconn] /\ UNCHANGED proc
    /\ UNCHANGED <<aconn, attempts, link, reachable, mainT, wire, lost, calls>>
    /\ UNCHANGED <<cvars, cfg>>

\* Lines 173-194: a message arrives and is logged; the loop goes round.
ListenMessage(t) ==
    /\ proc = "running"
    /\ thr[t].pc = "listen"
    /\ link[thr[t].ref] = "up"
    /\ thr' = [thr EXCEPT ![t].pc = "l_enter", ![t].ref = NoAConn]
    /\ link' = Collect(link, aconn, thr')
    /\ UNCHANGED <<proc, aconn, attempts, reachable, mainT, wire, lost, calls>>
    /\ UNCHANGED <<cvars, cfg>>

\* Lines 174-178: the read fails; handleDisconnection is called.
ListenError(t) ==
    /\ proc = "running"
    /\ thr[t].pc = "listen"
    /\ link[thr[t].ref] = "down"
    /\ thr' = [thr EXCEPT ![t].pc = OnTransportError(thr, t), ![t].ref = NoAConn]
    /\ link' = Collect(link, aconn, thr')
    /\ UNCHANGED <<proc, aconn, attempts, reachable, mainT, wire, lost, calls>>
    /\ UNCHANGED <<cvars, cfg>>

\* --------------------------------------------------------------- StartHeartbeat
\* Lines 122-125: a tick; nothing is done while c.conn is nil.
HeartbeatTick(t) ==
    /\ proc = "running"
    /\ thr[t].pc = "hb"
    /\ thr' = [thr EXCEPT ![t].pc = IF aconn = NoAConn THEN "hb" ELSE "hb_write"]
    /\ UNCHANGED <<proc, aconn, attempts, link, reachable, mainT, wire, lost, calls>>
    /\ UNCHANGED <<cvars, cfg>>

\* Lines 128-132: c.conn is read again and the ping written on it.
HeartbeatWrite(t) ==
    /\ proc = "running"
    /\ thr[t].pc = "hb_write"
    /\ IF aconn = NoAConn
       THEN proc' = "panic" /\ UNCHANGED thr
       ELSE /\ thr' = [thr EXCEPT ![t].pc = IF link[aconn] = "up" THEN "hb"
                                                ELSE OnTransportError(thr, t)]
            /\ UNCHANGED proc
    /\ UNCHANGED <<aconn, attempts, link, reachable, mainT, wire, lost, calls>>
    /\ UNCHANGED <<cvars, cfg>>

\* ----------------------------------------------------------- handleDisconnection
DisconnectedKept(ac) == ac

\* Line 139: c.conn = nil, whatever c.conn was.
Disconnected(ac) == NoAConn

\* Line 139: handleDisconnection is entered and c.conn = nil.
HdDropConn(t) ==
    /\ proc = "running"
    /\ thr[t].pc = "hd_nil"
    /\ aconn' = Disconnected(aconn)
    /\ calls' = calls + 1
    /\ thr' = [thr EXCEPT ![t].pc = "hd_load", ![t].k = calls + 1, ![t].delay = 0]
    /\ link' = Collect(link, aconn', thr')
    /\ UNCHANGED <<proc, attempts, reachable, mainT, wire, lost>>
    /\ UNCHANGED <<cvars, cfg>>

\* Line 140: c.reconnectAttempts++ on a field no lock guards: the load ...
HdLoad(t) ==
    /\ proc = "running"
    /\ thr[t].pc = "hd_load"
    /\ thr' = [thr EXCEPT ![t].pc = "hd_store", ![t].reg = attempts]
    /\ UNCHANGED <<proc, aconn, attempts, link, reachable, mainT, wire, lost, calls>>
    /\ UNCHANGED <<cvars, cfg>>

\* ... and the store of the incremented value.
HdStore(t) ==
    /\ proc = "running"
    /\ thr[t].pc = "hd_store"
    /\ attempts' = thr[t].reg + 1
    /\ thr' = [thr EXCEPT ![t].pc = "hd_delay", ![t].reg = 0]
    /\ UNCHANGED <<proc, aconn, link, reachable, mainT, wire, lost, calls>>
    /\ UNCHANGED <<cvars, cfg>>

\* Lines 143-146: the delay for the value n of c.reconnectAttempts.
BackoffDelay(n) ==
    IF n * ReconnectInterval > MaxReconnectDelay
    THEN MaxReconnectDelay
    ELSE n * ReconnectInterval

HdDelay(t) ==
    /\ proc = "running"
    /\ thr[t].pc = "hd_delay"
    /\ thr' = [thr EXCEPT ![t].pc = "hd_sleep", ![t].delay = BackoffDelay(attempts), ![t].k = 0]
    /\ UNCHANGED <<proc, aconn, attempts, link, reachable, mainT, wire, lost, calls>>
    /\ UNCHANGED <<cvars, cfg>>

\* time.Sleep(delay) after a goroutine has already slept for before.
Slept(before, delay) == before + delay

\* Line 148: time.Sleep(delay) is over.
HdSleepDone(t) ==
    /\ proc = "running"
    /\ thr[t].pc = "hd_sleep"
    /\ thr' = [thr EXCEPT ![t].pc = "hd_connect", ![t].slept = Slept(@, thr[t].delay)]
    /\ UNCHANGED <<proc, aconn, attempts, link, reachable, mainT, wire, lost, calls>>
    /\ UNCHANGED <<cvars, cfg>>

\* Lines 150, 59-65: the dial succeeds.
DialOK(t) ==
    /\ proc = "running"
    /\ thr[t].pc = "hd_connect"
    /\ reachable
    /\ NewAConn \in AConnIds
    /\ thr' = [thr EXCEPT ![t].pc = "c_assign", ![t].ref = NewAConn,
                         ![t].delay = 0, ![t].slept = 0]
    /\ link' = [link EXCEPT ![NewAConn] = "up"]
    /\ UNCHANGED <<proc, aconn, attempts, reachable, mainT, wire, lost, calls>>
    /\ UNCHANGED <<cvars, cfg>>

\* Line 67: c.conn = conn.
ConnAssign(t) ==
    /\ proc = "running"
    /\ thr[t].pc = "c_assign"
    /\ aconn' = thr[t].ref
    /\ thr' = [thr EXCEPT ![t].pc = "c_reset", ![t].ref = NoAConn]
    /\ link' = Collect(link, aconn', thr')
    /\ UNCHANGED <<proc, attempts, reachable, mainT, wire, lost, calls>>
    /\ UNCHANGED <<cvars, cfg>>

\* What Connect leaves in c.reconnectAttempts (line 68).
AttemptsAfterConnect(n) == 0

\* Lines 68-71, 156-158: the counter is reset, Connect returns nil and the
\* caller starts a heartbeat loop and returns.
ConnReset(t) ==
    /\ proc = "running"
    /\ thr[t].pc = "c_reset"
    /\ attempts' = AttemptsAfterConnect(attempts)
    /\ calls' = 0
    /\ thr' = [thr EXCEPT ![t].pc = "hb", ![t].delay = 0, ![t].k = 0]
    /\ UNCHANGED <<proc, aconn, link, reachable, mainT, wire, lost>>
    /\ UNCHANGED <<cvars, cfg>>

\* Lines 150-155, 59-65: the dial fails; a goroutine is started that will
\* sleep and call handleDisconnection again, and the caller returns.
\* cap: the number of consecutive failures the model follows.
DialFail(t, cap) ==
    /\ proc = "running"
    /\ thr[t].pc = "hd_connect"
    /\ ~reachable
    /\ attempts < cap
    /\ thr' = [thr EXCEPT ![t].pc = "retry_sleep", ![t].slept = 0]
    /\ UNCHANGED <<proc, aconn, attempts, link, reachable, mainT, wire, lost, calls>>
    /\ UNCHANGED <<cvars, cfg>>

\* Lines 153-154: the goroutine's sleep of the delay of the failed attempt
\* is over; handleDisconnection.
RetryWake(t) ==
    /\ proc = "running"
    /\ thr[t].pc = "retry_sleep"
    /\ thr' = [thr EXCEPT ![t].pc = "hd_nil", ![t].slept = Slept(@, thr[t].delay)]
    /\ UNCHANGED <<proc, aconn, attempts, link, reachable, mainT, wire, lost, calls>>
    /\ UNCHANGED <<cvars, cfg>>

\* ------------------------------------------------------- the collection loop
Alert(type, value, threshold) ==
    [type |-> type, level |-> "warning", value |-> value, threshold |-> threshold]

CheckAlertsInclusive(m, th) ==
    (IF m.cpu >= th.cpu THEN <<Alert("cpu", m.cpu, th.cpu)>> ELSE <<>>)
    \o (IF m.mem >= th.mem THEN <<Alert("memory", m.mem, th.mem)>> ELSE <<>>)
    \o (IF m.disk >= th.disk THEN <<Alert("disk", m.disk, th.disk)>> ELSE <<>>)

CheckAlertsDedup(m, th) ==
    SelectSeq(CheckAlertsInclusive(m, [cpu |-> th.cpu + 1, mem |-> th.mem + 1, disk |-> th.disk + 1]),
              LAMBDA al : \A i \in wire \cup lost : i.kind # al.type)

\* metrics.CheckAlerts: one alert per exceeded threshold, cpu, memory, disk.
CheckAlerts(m, th) ==
    (IF m.cpu > th.cpu THEN <<Alert("cpu", m.cpu, th.cpu)>> ELSE <<>>)
    \o (IF m.mem > th.mem THEN <<Alert("memory", m.mem, th.mem)>> ELSE <<>>)
    \o (IF m.disk > th.disk THEN <<Alert("disk", m.disk, th.disk)>> ELSE <<>>)

Item(kind, cycle) == [kind |-> kind, cycle |-> cycle]

\* An envelope that was not written: skipped by the caller or refused.
Dropped(kind, cycle, via) == [kind |-> kind, cycle |-> cycle, via |-> via]

\* Lines 242-249 of main.go: the next alert of the cycle, or the next tick.
NextAlertPc(alerts) == IF alerts = <<>> THEN "wait" ELSE "a_isconn"

\* part_011 lines 62-118: CollectMetrics returns (nil, err) as soon as one
\* family fails; failed: the first family that fails, "none" if none does.
Families == {"cpu", "memory", "disk", "network"}

CollectMetricsOK(failed) == failed = "none"

CollectTickStale(ok, sample) ==
    /\ proc = "running"
    /\ mainT.pc = "wait"
    /\ mainT.cycle < MaxCycles
    /\ mainT' = [mainT EXCEPT !.pc = "m_isconn", !.cycle = @ + 1, !.sample = sample,
                              !.err = IF ok THEN "none" ELSE "collect"]
    /\ UNCHANGED <<proc, aconn, attempts, thr, link, reachable, wire, lost, calls>>
    /\ UNCHANGED <<cvars, cfg>>

\* main.go lines 219-225: a tick of the collection timer; CollectMetrics
\* returns a sample, or an error and the cycle is skipped.
CollectTick(ok, sample) ==
    /\ proc = "running"
    /\ mainT.pc = "wait"
    /\ mainT.cycle < MaxCycles
    /\ mainT' = IF ok
                THEN [mainT EXCEPT !.pc = "m_isconn", !.cycle = @ + 1, !.sample = sample,
                                   !.err = "none"]
                ELSE [mainT EXCEPT !.cycle = @ + 1, !.sample = NoSample, !.err = "collect"]
    /\ UNCHANGED <<proc, aconn, attempts, thr, link, reachable, wire, lost, calls>>
    /\ UNCHANGED <<cvars, cfg>>

NotConnectedNever(ac) == FALSE

\* Lines 75, 91, 161-163: c.conn == nil.
NotConnected(ac) == ac = NoAConn

\* main.go line 228: wsClient.IsConnected() before SendMetrics.
MetricsIsConnected ==
    /\ proc = "running"
    /\ mainT.pc = "m_isconn"
    /\ IF NotConnected(aconn)
       THEN /\ mainT' = [mainT EXCEPT !.alerts = CheckAlerts(mainT.sample, cfg),
                                      !.pc = NextAlertPc(CheckAlerts(mainT.sample, cfg))]
            /\ lost' = lost \cup {Dropped("metrics", mainT.cycle, "IsConnected")}
       ELSE /\ mainT' = [mainT EXCEPT !.pc = "m_nilcheck"]
            /\ UNCHANGED lost
    /\ UNCHANGED <<proc, aconn, attempts, thr, link, reachable, wire, calls>>
    /\ UNCHANGED <<cvars, cfg>>

\* Lines 75-77: SendMetrics returns "not connected" when c.conn is nil.
SendMetricsCheck ==
    /\ proc = "running"
    /\ mainT.pc = "m_nilcheck"
    /\ IF NotConnected(aconn)
       THEN /\ mainT' = [mainT EXCEPT !.alerts = CheckAlerts(mainT.sample, cfg),
                                      !.pc = NextAlertPc(CheckAlerts(mainT.sample, cfg)),
                                      !.err = "not connected"]
            /\ lost' = lost \cup {Dropped("metrics", mainT.cycle, "not connected")}
       ELSE /\ mainT' = [mainT EXCEPT !.pc = "m_write"]
            /\ UNCHANGED lost
    /\ UNCHANGED <<proc, aconn, attempts, thr, link, reachable, wire, calls>>
    /\ UNCHANGED <<cvars, cfg>>

\* Lines 79-87: c.conn is read again and the envelope written on it.
SendMetricsWrite ==
    /\ proc = "running"
    /\ mainT.pc = "m_write"
    /\ IF aconn = NoAConn
       THEN proc' = "panic" /\ UNCHANGED <<mainT, wire>>
       ELSE /\ UNCHANGED proc
            /\ mainT' = [mainT EXCEPT !.alerts = CheckAlerts(mainT.sample, cfg),
                                      !.pc = NextAlertPc(CheckAlerts(mainT.sample, cfg)),
                                      !.err = IF link[aconn] = "up" THEN "none" ELSE "write"]
            /\ wire' = IF link[aconn] = "up"
                       THEN wire \cup {Item("metrics", mainT.cycle)} ELSE wire
    /\ UNCHANGED <<aconn, attempts, thr, link, reachable, lost, calls>>
    /\ UNCHANGED <<cvars, cfg>>

\* main.go line 244: wsClient.IsConnected() before SendAlert.
AlertIsConnected ==
    /\ proc = "running"
    /\ mainT.pc = "a_isconn"
    /\ IF NotConnected(aconn)
       THEN /\ mainT' = [mainT EXCEPT !.alerts = Tail(@), !.pc = NextAlertPc(Tail(mainT.alerts))]
            /\ lost' = lost \cup {Dropped(Head(mainT.alerts).type, mainT.cycle, "IsConnected")}
       ELSE /\ mainT' = [mainT EXCEPT !.pc = "a_nilcheck"]
            /\ UNCHANGED lost
    /\ UNCHANGED <<proc, aconn, attempts, thr, link, reachable, wire, calls>>
    /\ UNCHANGED <<cvars, cfg>>

\* Lines 91-93: SendAlert returns "not connected" when c.conn is nil.
SendAlertCheck ==
    /\ proc = "running"
    /\ mainT.pc = "a_nilcheck"
    /\ IF NotConnected(aconn)
       THEN /\ mainT' = [mainT EXCEPT !.alerts = Tail(@), !.pc = NextAlertPc(Tail(mainT.alerts)),
                                      !.err = "not connected"]
            /\ lost' = lost \cup {Dropped(Head(mainT.alerts).type, mainT.cycle, "not connected")}
       ELSE /\ mainT' = [mainT EXCEPT !.pc = "a_write"]
            /\ UNCHANGED lost
    /\ UNCHANGED <<proc, aconn, attempts, thr, link, reachable, wire, calls>>
    /\ UNCHANGED <<cvars, cfg>>

\* Lines 95-103: c.conn is read again and the envelope written on it.
SendAlertWrite ==
    /\ proc = "running"
    /\ mainT.pc = "a_write"
    /\ IF aconn = NoAConn
       THEN proc' = "panic" /\ UNCHANGED <<mainT, wire>>
       ELSE /\ UNCHANGED proc
            /\ mainT' = [mainT EXCEPT !.alerts = Tail(@), !.pc = NextAlertPc(Tail(mainT.alerts)),
                                      !.err = IF link[aconn] = "up" THEN "none" ELSE "write"]
            /\ wire' = IF link[aconn] = "up"
                       THEN wire \cup {Item(Head(mainT.alerts).type, mainT.cycle)} ELSE wire
    /\ UNCHANGED <<aconn, attempts, thr, link, reachable, lost, calls>>
    /\ UNCHANGED <<cvars, cfg>>

\* ------------------------------------------------------------ agent environment
\* The transport of a connection object of the agent breaks.
LinkFail(id) ==
    /\ proc = "running"
    /\ link[id] = "up"
    /\ link' = [link EXCEPT ![id] = "down"]
    /\ UNCHANGED <<proc, aconn, attempts, thr, reachable, mainT, wire, lost, calls>>
    /\ UNCHANGED <<cvars, cfg>>

\* The collector becomes reachable or unreachable.
ReachChange ==
    /\ proc \in {"init", "running"}
    /\ reachable' = ~reachable
    /\ UNCHANGED <<proc, aconn, attempts, thr, link, mainT, wire, lost, calls>>
    /\ UNCHANGED <<cvars, cfg>>

\* ------------------------------------------------------------ specifications
\* Spec: the registry under several connections.  Accepted handshakes for
\* both servers, the readers, the reaper, the clock.
RegistryFrames ==
    { Frame("malformed", "none", "none", NoSample),
      Frame("ok", "metrics", "object", Sample(925, 400, 300)) }

Next ==
    \/ \E c \in ConnIds, t \in {"t1", "t2"} : HandleAgentConnection(c, t, FALSE, TRUE)
    \/ \E c \in ConnIds : Register(c)
    \/ \E c \in ConnIds : StartLoops(c)
    \/ \E c \in ConnIds : ReaderStart(c)
    \/ \E c \in ConnIds : PongHandler(c)
    \/ \E c \in ConnIds, f \in RegistryFrames : ReadMessage(c, f)
    \/ \E c \in ConnIds : ReadError(c)
    \/ \E c \in ConnIds : Dispatch(c, TRUE)
    \/ \E c \in ConnIds : LastSeen(c)
    \/ \E c \in ConnIds : unregisterConnection(c)
    \/ \E c \in ConnIds : ReaderClose(c)
    \/ cleanupStaleConnections
    \/ Tick
    \/ \E c \in ConnIds : TransportFail(c)

Spec == Init /\ [][Next]_vars

\* SessionSpec: one session in full.  Every handshake outcome, every kind
\* of frame, storage failures, the writer, the reaper, the clock.
SessionNext ==
    \/ \E c \in ConnIds, t \in Tokens, dbErr \in BOOLEAN, up \in BOOLEAN :
          /\ c = 1 \/ HandshakeCode(t, dbErr, up) # 101
          /\ HandleAgentConnection(c, t, dbErr, up)
    \/ Register(1)
    \/ StartLoops(1)
    \/ ReaderStart(1)
    \/ PongHandler(1)
    \/ \E f \in Frames : ReadMessage(1, f)
    \/ ReadError(1)
    \/ \E dbOK \in BOOLEAN : Dispatch(1, dbOK)
    \/ LastSeen(1)
    \/ unregisterConnection(1)
    \/ ReaderClose(1)
    \/ \E ok \in BOOLEAN : WriterPing(1, ok)
    \/ WriterQueueClosed(1)
    \/ cleanupStaleConnections
    \/ Tick
    \/ TransportFail(1)

SessionSpec == Init /\ [][SessionNext]_vars

\* PushSpec: the push interface against one session, whose outbound queue
\* fills up to its capacity.
PushNext ==
    \/ HandleAgentConnection(1, "t1", FALSE, TRUE)
    \/ Register(1)
    \/ StartLoops(1)
    \/ ReaderStart(1)
    \/ ReadError(1)
    \/ unregisterConnection(1)
    \/ ReaderClose(1)
    \/ \E ok \in BOOLEAN : WriterSend(1, ok)
    \/ WriterQueueClosed(1)
    \/ \E s \in Servers, m \in BOOLEAN : SendLookup(s, m)
    \/ SendEnqueue
    \/ TransportFail(1)

PushSpec == Init /\ [][PushNext]_vars

\* AgentSpec: the reconnection of the client.  The listener, the heartbeat
\* and the reconnect sequences they start, against a collector that comes
\* and goes and transports that break.
AgentNext ==
    \/ StartupConnect
    \/ \E t \in Threads : ListenStart(t)
    \/ \E t \in Threads : ListenEnter(t)
    \/ \E t \in Threads : ListenMessage(t)
    \/ \E t \in Threads : ListenError(t)
    \/ \E t \in Threads : HeartbeatTick(t)
    \/ \E t \in Threads : HeartbeatWrite(t)
    \/ \E t \in Threads : HdDropConn(t)
    \/ \E t \in Threads : HdLoad(t)
    \/ \E t \in Threads : HdStore(t)
    \/ \E t \in Threads : HdDelay(t)
    \/ \E t \in Threads : HdSleepDone(t)
    \/ \E t \in Threads : DialOK(t)
    \/ \E t \in Threads : ConnAssign(t)
    \/ \E t \in Threads : ConnReset(t)
    \/ \E t \in Threads : DialFail(t, MaxAttempts)
    \/ \E t \in Threads : RetryWake(t)
    \/ \E id \in AConnIds : LinkFail(id)
    \/ ReachChange

AgentSpec == Init /\ [][AgentNext]_vars

\* What one goroutine of the client can do.
ThreadStep(t) ==
    \/ ListenStart(t) \/ ListenEnter(t) \/ ListenMessage(t) \/ ListenError(t)
    \/ HeartbeatTick(t) \/ HeartbeatWrite(t)
    \/ HdDropConn(t) \/ HdLoad(t) \/ HdStore(t) \/ HdDelay(t) \/ HdSleepDone(t)
    \/ DialOK(t) \/ ConnAssign(t) \/ ConnReset(t)
    \/ DialFail(t, MaxAttempts) \/ RetryWake(t)

\* ReconnectSpec: the first connection breaks, the collector comes and
\* goes, and every goroutine that can take a step eventually takes one.
ReconnectNext ==
    \/ StartupConnect
    \/ \E t \in Threads : ListenStart(t)
    \/ \E t \in Threads : ListenEnter(t)
    \/ \E t \in Threads : ListenMessage(t)
    \/ \E t \in Threads : ListenError(t)
    \/ \E t \in Threads : HeartbeatTick(t)
    \/ \E t \in Threads : HeartbeatWrite(t)
    \/ \E t \in Threads : HdDropConn(t)
    \/ \E t \in Threads : HdLoad(t)
    \/ \E t \in Threads : HdStore(t)
    \/ \E t \in Threads : HdDelay(t)
    \/ \E t \in Threads : HdSleepDone(t)
    \/ \E t \in Threads : DialOK(t)
    \/ \E t \in Threads : ConnAssign(t)
    \/ \E t \in Threads : ConnReset(t)
    \/ \E t \in Threads : DialFail(t, MaxAttempts)
    \/ \E t \in Threads : RetryWake(t)
    \/ LinkFail(1)
    \/ ReachChange

ReconnectSpec ==
    /\ Init
    /\ [][ReconnectNext]_vars
    /\ WF_vars(StartupConnect)
    /\ \A t \in Threads : WF_vars(ThreadStep(t))

\* ClientSpec: the collection loop of main beside the reconnection, with a
\* collector that stays reachable: transports break and every dial succeeds.
ClientNext ==
    \/ StartupConnect
    \/ \E t \in Threads : ListenStart(t)
    \/ \E t \in Threads : ListenEnter(t)
    \/ \E t \in Threads : ListenMessage(t)
    \/ \E t \in Threads : ListenError(t)
    \/ \E t \in Threads : HeartbeatTick(t)
    \/ \E t \in Threads : HeartbeatWrite(t)
    \/ \E t \in Threads : HdDropConn(t)
    \/ \E t \in Threads : HdLoad(t)
    \/ \E t \in Threads : HdStore(t)
    \/ \E t \in Threads : HdDelay(t)
    \/ \E t \in Threads : HdSleepDone(t)
    \/ \E t \in Threads : DialOK(t)
    \/ \E t \in Threads : ConnAssign(t)
    \/ \E t \in Threads : ConnReset(t)
    \/ \E id \in AConnIds : LinkFail(id)
    \/ \E ok \in BOOLEAN, m \in AgentSamples : CollectTick(ok, m)
    \/ MetricsIsConnected
    \/ SendMetricsCheck
    \/ SendMetricsWrite
    \/ AlertIsConnected
    \/ SendAlertCheck
    \/ SendAlertWrite

ClientSpec == Init /\ [][ClientNext]_vars

\* ===================================================================== claims
Registered == { c \in ConnIds : \E s \in Servers : connections[s] = c }

\* C1: when HandleAgentConnection registers connection B for a server ID
\* that already has a registered connection A, A's transport is closed as
\* part of that registration and the registry afterwards holds the one
\* entry for that ID, pointing at B, in every interleaving.
C1_SupersedeClosesPrior ==
    [][\A b \in ConnIds :
          LET s == conn[b].server
              a == connections[s]
          IN (conn[b].hpc = "register" /\ conn'[b].hpc = "lastseen" /\ a # NoConn /\ a # b)
                => (conn'[a].transport = "closed" /\ connections'[s] = b)]_vars

\* C2: a connect request whose token is empty or is not resolved by
\* GetServerByToken never causes an upgrade and never adds or changes a
\* registry entry: every connection object, and so every registered one,
\* was created from a token that resolves to its server.
C2_OnlyResolvedTokens ==
    /\ \A c \in ConnIds :
          Created(c) => /\ conn[c].token # ""
                        /\ conn[c].server \in Servers
                        /\ GetServerByToken(conn[c].token) = conn[c].server
    /\ \A s \in Servers :
          connections[s] # NoConn => Created(connections[s]) /\ conn[connections[s]].server = s

\* C2 happens: a request with an unknown token was answered 401 while a
\* session was registered and reading, and changed nothing.
C2_Witness == resp = 401 /\ connections[1] = 1 /\ conn[1].rpc = "read"

\* C3: when the transport of a registered connection is closed while its
\* reader is blocked in a read, the reader's teardown (unregisterConnection)
\* removes the server's registry entry and sets its status to "offline";
\* no sweep of the reaper is needed.
C3_TeardownUnregisters ==
    [][\A c \in ConnIds :
          (conn[c].rpc = "unreg" /\ conn'[c].rpc # "unreg" /\ connections[conn[c].server] = c)
             => /\ connections'[conn[c].server] = NoConn
                /\ status'[conn[c].server] = "offline"
                /\ conn'[c].transport = conn[c].transport]_vars

\* C3 happens: a reader has torn down after its transport broke.
C3_Witness ==
    \E c \in ConnIds :
        /\ Created(c)
        /\ conn[c].rpc = "close" /\ conn[c].transport = "broken" /\ conn[c].sendClosed
        /\ connections[conn[c].server] = NoConn
        /\ status[conn[c].server] = "offline"

\* C4: a sweep of the reaper removes exactly the entries whose lastPing is
\* more than the 2-minute window old, closes their transports and sets
\* their servers "offline"; it leaves every other entry, connection and
\* status as it was; after it no entry is stale, so a second sweep changes
\* nothing and raises no error.
SweepStep ==
    \E c \in ConnIds :
        conn[c].transport # "closed" /\ conn'[c].transport = "closed" /\ conn'[c].rpc = conn[c].rpc

C4_SweepEvictsExactlyStale ==
    [][SweepStep =>
          /\ \A s \in Servers :
                LET c == connections[s] IN
                IF c # NoConn /\ now - conn[c].lastPing > 120
                THEN /\ connections'[s] = NoConn
                     /\ conn'[c].transport = "closed"
                     /\ status'[s] = "offline"
                ELSE /\ connections'[s] = connections[s]
                     /\ status'[s] = status[s]
          /\ \A c \in ConnIds :
                (c \notin Registered \/ now - conn[c].lastPing <= 120) => conn'[c] = conn[c]
          /\ \A s \in Servers :
                connections'[s] # NoConn => now' - conn'[connections'[s]].lastPing <= 120
          /\ crashed' = crashed]_vars

\* C4 happens: a sweep has evicted one entry and kept another whose
\* lastPing is exactly the window old.
C4_Witness ==
    \E c, d \in ConnIds :
        /\ Created(c) /\ Created(d)
        /\ conn[c].transport = "closed" /\ conn[c].rpc = "read"
        /\ connections[conn[c].server] = NoConn
        /\ status[conn[c].server] = "offline"
        /\ connections[conn[d].server] = d
        /\ now - conn[d].lastPing = 120

\* C5: after the reader has finished one loop iteration on a "metrics"
\* envelope, the last-seen update included, the server's status is
\* "warning" if cpu.usage > 90 or memory.used_percent > 95 or
\* disk.used_percent > 95, and "online" otherwise.
C5_StatusAfterMetrics ==
    [][\A c \in ConnIds :
          LET m == conn[c].msg IN
          (conn[c].rpc = "lastseen" /\ conn'[c].rpc = "read"
              /\ m.type = "metrics" /\ m.data = "object")
             => status'[conn[c].server] =
                   IF m.sample.cpu > 900 \/ m.sample.mem > 950 \/ m.sample.disk > 950
                   THEN "warning" ELSE "online"]_vars

\* C9: SendMessageToAgent always ends in one of three outcomes: not
\* connected when the registry has no entry; ok when the queue holds fewer
\* than 256 messages, and then exactly one message is appended; queue full
\* otherwise, and then queue, registry and connection are unchanged.
\* (Stated for messages that json.Marshal accepts.)
C9_PushOutcomes ==
    [][(push.pc = "enqueue" /\ push'.pc = "idle" /\ push.marshal)
          => LET c == push.c IN
             /\ push'.result \in {"ok", "ErrAgentNotResponding"}
             /\ push'.result = "ok" <=> conn[c].queue < 256
             /\ push'.result = "ok" => conn'[c].queue = conn[c].queue + 1
             /\ push'.result = "ErrAgentNotResponding" => conn' = conn
             /\ connections' = connections]_vars

\* C10: a received message that is malformed JSON, or whose payload is
\* invalid for its type, is dropped without tearing the connection down:
\* the reader leaves its read for the teardown only on a transport error,
\* and after an invalid payload the connection is still registered, the
\* queue still open and the reader on its way to the next read.
C10_DecodeErrorKeepsConnection ==
    [][\A c \in ConnIds :
          /\ (conn[c].rpc = "read" /\ conn'[c].rpc = "unreg") => ~Readable(c)
          /\ (conn[c].rpc = "dispatch" /\ conn'[c].rpc # "dispatch")
                => /\ conn'[c].rpc = "lastseen"
                   /\ connections' = connections
                   /\ conn'[c].sendClosed = conn[c].sendClosed]_vars

\* C6: the delay computed by the k-th consecutive handleDisconnection since
\* the last successful Connect is min(k * 5s, 60s).
C6_DelayOfKthCall ==
    [][\A t \in Threads :
          (thr[t].pc = "hd_delay" /\ thr'[t].pc = "hd_sleep")
          => thr'[t].delay = (IF thr[t].k * 5 > 60 THEN 60 ELSE thr[t].k * 5)]_vars

\* C7: after the first successful connect, with a collector that eventually
\* stays reachable, a client that has lost its connection eventually has
\* one again.
C7_EventuallyConnectedAgain ==
    (<>[]reachable)
    => []((proc # "init" /\ proc # "fatal" /\ aconn = NoAConn) => <>(aconn # NoAConn))

\* C8: SendMetrics and SendAlert entered with c.conn nil return "not
\* connected" in that step and write nothing, and nothing that was skipped
\* or refused while disconnected is ever on the wire.
C8_NotConnectedRefuses ==
    [][/\ (mainT.pc \in {"m_nilcheck", "a_nilcheck"} /\ aconn = NoAConn /\ mainT' # mainT)
          => (mainT'.err = "not connected" /\ wire' = wire /\ proc' = proc)
       /\ \A i \in lost' : Item(i.kind, i.cycle) \notin wire']_vars

\* C8 happens: the sample of cycle 1 was refused, the client reconnected
\* and wrote the sample of cycle 2, and the alert of cycle 2 was refused.
C8_Witness ==
    /\ Dropped("metrics", 1, "not connected") \in lost
    /\ Item("metrics", 2) \in wire
    /\ Dropped("cpu", 2, "not connected") \in lost

\* A connection that went through registration and that the collector has
\* not torn down: its transport is open and its reader is in its loop.
RegisteredLive(c) ==
    /\ conn[c].hpc \in {"lastseen", "done"}
    /\ conn[c].transport = "open"
    /\ conn[c].rpc \in {"none", "start", "read", "dispatch", "lastseen"}

\* C11 (first half): no registry entry refers to a connection whose
\* transport the collector has closed.
NoDanglingEntry ==
    \A s \in Servers :
        connections[s] # NoConn => conn[connections[s]].transport # "closed"

\* C11: no registry entry refers to a connection whose transport the
\* collector has closed, and no server has two connections that are both
\* registered and live.
C11_NoDanglingNoTwoLive ==
    /\ NoDanglingEntry
    /\ \A a, b \in ConnIds :
          (a # b /\ RegisteredLive(a) /\ RegisteredLive(b)) => conn[a].server # conn[b].server

\* C12: the first Connect failing ends the agent with a fatal startup
\* error; once the first Connect has succeeded, no step of a loop or of a
\* reconnect sequence ends the process.
C12_OnlyStartupFailureIsFatal ==
    [][/\ (proc = "init" /\ proc' # "init")
             => proc' = (IF reachable THEN "running" ELSE "fatal")
       /\ proc = "running" => proc' = "running"]_vars

\* ------------------------------------------------------------- AlertSpec
\* AlertSpec: CheckAlerts on every sample and every threshold triple of
\* the sets below (tenths of a percent; equal and zero values included).
AlertValues == {0, 800, 801, 1000}
AlertLimits == {0, 800, 1000}

AlertInit ==
    /\ CInit
    /\ proc = "init"
    /\ aconn = NoAConn
    /\ attempts = 0
    /\ thr = [t \in Threads |-> Idle]
    /\ link = [id \in AConnIds |-> "free"]
    /\ reachable = TRUE
    /\ \E c \in AlertValues, m \in AlertValues, d \in AlertValues :
          mainT = [pc |-> "check", cycle |-> 1, sample |-> Sample(c, m, d),
                   alerts |-> <<>>, err |-> "none"]
    /\ wire = {}
    /\ lost = {}
    /\ calls = 0
    /\ cfg \in [cpu : AlertLimits, mem : AlertLimits, disk : AlertLimits]

\* main.go lines 235-239: collector.CheckAlerts(systemMetrics, thresholds).
CheckAlertsCall ==
    /\ mainT.pc = "check"
    /\ mainT' = [mainT EXCEPT !.pc = "checked", !.alerts = CheckAlerts(mainT.sample, cfg)]
    /\ UNCHANGED <<proc, aconn, attempts, thr, link, reachable, wire, lost, calls, cfg>>
    /\ UNCHANGED cvars

AlertNext == CheckAlertsCall

AlertSpec == AlertInit /\ [][AlertNext]_vars

\* The observed percentage and the configured threshold of a metric.
Observed(kind) ==
    CASE kind = "cpu" -> mainT.sample.cpu
      [] kind = "memory" -> mainT.sample.mem
      [] kind = "disk" -> mainT.sample.disk

Limit(kind) ==
    CASE kind = "cpu" -> cfg.cpu
      [] kind = "memory" -> cfg.mem
      [] kind = "disk" -> cfg.disk

IsExceeded(kind) == Observed(kind) > Limit(kind)

Exceeded == SelectSeq(<<"cpu", "memory", "disk">>, IsExceeded)

\* C13: CheckAlerts returns exactly one alert for each of cpu, memory and
\* disk whose observed percentage is strictly greater than its threshold,
\* in that order, and none for the others; each alert has level "warning",
\* the observed percentage as value and the configured threshold.
C13_CheckAlertsExact ==
    mainT.pc = "checked" =>
        /\ Len(mainT.alerts) = Len(Exceeded)
        /\ Len(mainT.alerts) <= 3
        /\ \A i \in 1..Len(mainT.alerts) :
              /\ mainT.alerts[i].type = Exceeded[i]
              /\ mainT.alerts[i].level = "warning"
              /\ mainT.alerts[i].value = Observed(Exceeded[i])
              /\ mainT.alerts[i].threshold = Limit(Exceeded[i])

\* C13 happens: cpu and disk are above their thresholds, memory is exactly
\* at its threshold, and the alerts are the cpu and the disk alert.
C13_Witness ==
    /\ mainT.pc = "checked"
    /\ mainT.sample.mem = cfg.mem /\ cfg.mem = 800
    /\ Len(mainT.alerts) = 2
    /\ mainT.alerts[1].type = "cpu" /\ mainT.alerts[2].type = "disk"

\* ------------------------------------------------------------- CycleSpec
\* CycleSpec: the collection loop over a connection that stays up, with
\* samples below and above the thresholds and collections that fail.
CycleSamples ==
    { Sample(500, 400, 300), Sample(925, 400, 300), Sample(925, 400, 960) }

CycleNext ==
    \/ StartupConnect
    \/ \E t \in Threads : ListenStart(t)
    \/ \E t \in Threads : ListenEnter(t)
    \/ \E t \in Threads : ListenMessage(t)
    \/ \E t \in Threads : HeartbeatTick(t)
    \/ \E t \in Threads : HeartbeatWrite(t)
    \/ \E f \in Families \cup {"none"}, m \in CycleSamples : CollectTick(CollectMetricsOK(f), m)
    \/ MetricsIsConnected
    \/ SendMetricsCheck
    \/ SendMetricsWrite
    \/ AlertIsConnected
    \/ SendAlertCheck
    \/ SendAlertWrite

CycleSpec == Init /\ [][CycleNext]_vars

\* The step of the collection loop that evaluates the alerts of a cycle.
AlertsEvaluated ==
    /\ mainT.pc \in {"m_isconn", "m_nilcheck", "m_write"}
    /\ mainT'.pc \in {"a_isconn", "wait"}

AlertKinds(alerts) == { alerts[i].type : i \in 1..Len(alerts) }

\* C14: in every cycle, whatever was alerted, sent or dropped in earlier
\* cycles, the alerts produced are those of the metrics the cycle's sample
\* has above their thresholds.
C14_AlertsEveryCycle ==
    [][AlertsEvaluated =>
          \A kind \in {"cpu", "memory", "disk"} :
              IsExceeded(kind) <=> kind \in AlertKinds(mainT'.alerts)]_vars

\* C14 happens: the cpu alert of cycle 1 was sent, and cycle 2 has
\* produced a cpu alert again.
C14_Witness ==
    /\ Item("cpu", 1) \in wire
    /\ mainT.cycle = 2
    /\ mainT.pc = "a_isconn"
    /\ "cpu" \in AlertKinds(mainT.alerts)

\* A tick of the collection timer whose CollectMetrics returned an error.
FailedCollection ==
    /\ mainT.pc = "wait"
    /\ mainT'.cycle = mainT.cycle + 1
    /\ mainT'.err = "collect"

\* C15: a tick whose CollectMetrics fails leaves no sample, writes and
\* drops no envelope and evaluates no alert, and the loop waits for the
\* next tick; envelopes are only written or dropped in a cycle that has a
\* sample, under that cycle's number; the tick after a failed one starts
\* a full cycle.
C15_FailedCollectionSkipsCycle ==
    [][/\ FailedCollection
             => /\ mainT'.pc = "wait"
                /\ mainT'.sample = NoSample
                /\ mainT'.alerts = <<>>
                /\ wire' = wire /\ lost' = lost
       /\ (wire' # wire \/ lost' # lost)
             => /\ mainT.sample # NoSample
                /\ mainT.pc \in {"m_isconn", "m_nilcheck", "m_write",
                                 "a_isconn", "a_nilcheck", "a_write"}
                /\ \A i \in (wire' \ wire) \cup (lost' \ lost) : i.cycle = mainT.cycle
       /\ (mainT.pc = "wait" /\ mainT.err = "collect"
              /\ mainT'.cycle = mainT.cycle + 1 /\ mainT'.err # "collect")
             => /\ mainT'.pc = "m_isconn"
                /\ mainT'.sample # NoSample
                /\ mainT'.err = "none"]_vars

\* C15 happens: the collection of cycle 1 failed, nothing of cycle 1 was
\* written or dropped, and the metrics and the alert of cycle 2 are on the
\* wire.
C15_Witness ==
    /\ mainT.cycle = 2
    /\ \A i \in wire \cup lost : i.cycle # 1
    /\ Item("metrics", 2) \in wire
    /\ Item("cpu", 2) \in wire

\* ------------------------------------------------------------- OrderSpec
\* OrderSpec: two sessions whose reads and stored records are journalled.
\* Each connection receives each of two distinct envelopes at most once,
\* in any order; inserts succeed or fail.
OrderFrames ==
    { Frame("ok", "metrics", "object", Sample(500, 400, 300)),
      Frame("ok", "alert", "object", NoSample) }

OrderInit == CBase /\ journal = Journal(TRUE) /\ AInit

\* The entries of a journal sequence that belong to connection c.
OfConn(seq, c) == SelectSeq(seq, LAMBDA e : e[1] = c)

SeqRange(seq) == { seq[i] : i \in 1..Len(seq) }

OrderNext ==
    \/ \E c \in ConnIds, t \in {"t1", "t2"} : HandleAgentConnection(c, t, FALSE, TRUE)
    \/ \E c \in ConnIds : Register(c)
    \/ \E c \in ConnIds : StartLoops(c)
    \/ \E c \in ConnIds : ReaderStart(c)
    \/ \E c \in ConnIds, f \in OrderFrames :
          /\ <<c, f>> \notin SeqRange(journal.rcvd)
          /\ ReadMessage(c, f)
    \/ \E c \in ConnIds : ReadError(c)
    \/ \E c \in ConnIds, dbOK \in BOOLEAN : Dispatch(c, dbOK)
    \/ \E c \in ConnIds : LastSeen(c)
    \/ \E c \in ConnIds : unregisterConnection(c)
    \/ \E c \in ConnIds : ReaderClose(c)
    \/ \E c \in ConnIds : TransportFail(c)

OrderSpec == OrderInit /\ [][OrderNext]_vars

RECURSIVE IsSubSeq(_, _)
\* s is t with some elements left out, the order kept.
IsSubSeq(s, t) ==
    IF s = <<>> THEN TRUE
    ELSE IF t = <<>> THEN FALSE
    ELSE IF Head(s) = Head(t) THEN IsSubSeq(Tail(s), Tail(t))
    ELSE IsSubSeq(s, Tail(t))

\* C16: within one connection the records are stored in the order their
\* envelopes were read: a record is stored by the dispatch of the envelope
\* read last on its connection, after everything read before it has been
\* handled, and a read happens only when the previous dispatch and its
\* last-seen update have returned.
C16_HandledInReceiveOrder ==
    [][/\ \A c \in ConnIds :
             /\ IsSubSeq(OfConn(journal'.stored, c), OfConn(journal'.rcvd, c))
             /\ OfConn(journal'.stored, c) # OfConn(journal.stored, c)
                   => /\ conn[c].rpc = "dispatch"
                      /\ OfConn(journal.rcvd, c) # <<>>
                      /\ OfConn(journal'.stored, c)
                            = Append(OfConn(journal.stored, c),
                                     OfConn(journal.rcvd, c)[Len(OfConn(journal.rcvd, c))])
             /\ OfConn(journal'.rcvd, c) # OfConn(journal.rcvd, c)
                   => conn[c].rpc = "read" /\ conn[c].msg = NoMsg]_vars

\* C16 happens: connection 1 has read two envelopes and both are stored
\* in the order read, with a record of connection 2 stored between them.
C16_Witness ==
    LET r == OfConn(journal.rcvd, 1)
        s == OfConn(journal.stored, 1)
    IN /\ Len(r) = 2
       /\ s = r
       /\ Len(journal.stored) = 3
       /\ journal.stored[2][1] = 2

\* ------------------------------------------------------------- CodecSpec
\* CodecSpec: one "metrics" envelope from the agent's SystemMetrics to the
\* collector's MetricData.  The agent marshals the struct (uint64 and int64
\* fields as decimal integers); the collector's ReadJSON decodes "data" into
\* an interface{}, where every JSON number becomes a float64; the handler
\* marshals that map again and unmarshals the text into MetricData.
\* An unsigned integer is the set of the positions of its one bits, so that
\* the full 64-bit range is kept.
Float64Mantissa == 53
Uint64Bits == 64

Pow2(i) == {i}

Top(S) == CHOOSE i \in S : \A j \in S : j <= i

\* S + 2^i in binary: the carry runs through the ones from position i up.
AddBit(S, i) ==
    LET j == CHOOSE j \in i..(Uint64Bits + 1) :
                 j \notin S /\ \A k \in i..(j - 1) : k \in S
    IN (S \ (i..(j - 1))) \cup {j}

\* The float64 nearest to the integer S, ties to even.
Float64(S) ==
    IF S = {} \/ Top(S) < Float64Mantissa THEN S
    ELSE LET lsb == Top(S) - (Float64Mantissa - 1)
             half == lsb - 1
             kept == {i \in S : i >= lsb}
             up == half \in S /\ (lsb \in S \/ \E i \in S : i < half)
         IN IF up THEN AddBit(kept, lsb) ELSE kept

\* ReadJSON into AgentMessage.Data (interface{}): a JSON number becomes a
\* float64.
DecodeNumber(S) == Float64(S)

\* json.Unmarshal of the re-marshalled number into a field of bits bits:
\* the decimal text of the float64 (for the integers used here, its exact
\* value) parsed as an integer, or an error if it does not fit.
UnmarshalInt(F, bits) == [err |-> \E i \in F : i >= bits, v |-> F]

SystemMetrics(usage, memTotal, bytesSent, uptime) ==
    [ cpu |-> usage, mem |-> 0, disk |-> 0,
      memTotal |-> memTotal, bytesSent |-> bytesSent, uptime |-> uptime ]

\* Lines 909-924 of dashboard.go: the map, json.Marshal, json.Unmarshal.
\* A percentage is a float64 on both sides and keeps its value; an error in
\* any field fails the whole Unmarshal.
DecodeMetricData(data) ==
    LET memTotal == UnmarshalInt(data.memTotal, Uint64Bits)
        bytesSent == UnmarshalInt(data.bytesSent, Uint64Bits)
        uptime == UnmarshalInt(data.uptime, Uint64Bits - 1)
    IN [ err |-> memTotal.err \/ bytesSent.err \/ uptime.err,
         data |-> SystemMetrics(data.cpu, memTotal.v, bytesSent.v, uptime.v) ]

\* The integers sent: 0, 1, 2^32, 2^53, 2^53+1, 2^53+3 and 2^64-1.
CodecUints ==
    { {}, Pow2(0), Pow2(32), Pow2(53), Pow2(53) \cup Pow2(0),
      Pow2(53) \cup Pow2(1) \cup Pow2(0), 0..(Uint64Bits - 1) }

CodecUptimes == { {}, Pow2(20), Pow2(53) \cup Pow2(0) }

CodecInit ==
    /\ CBase
    /\ journal = Journal(TRUE)
    /\ proc = "running"
    /\ aconn = 1
    /\ attempts = 0
    /\ thr = [t \in Threads |-> Idle]
    /\ link = [id \in AConnIds |-> IF id = 1 THEN "up" ELSE "free"]
    /\ reachable = TRUE
    /\ \E usage \in {0, 925}, memTotal \in CodecUints, bytesSent \in CodecUints,
          uptime \in CodecUptimes :
          mainT = [pc |-> "m_write", cycle |-> 1,
                   sample |-> SystemMetrics(usage, memTotal, bytesSent, uptime),
                   alerts |-> <<>>, err |-> "none"]
    /\ wire = {}
    /\ lost = {}
    /\ calls = 0
    /\ cfg = Thresholds

\* part_010 lines 79-87 and dashboard.go lines 852-853: WriteJSON of the
\* envelope, and ReadJSON of it on the collector.
MetricsFrameRead ==
    /\ mainT.pc = "m_write"
    /\ mainT' = [mainT EXCEPT !.pc = "wait"]
    /\ journal' = Received(journal, 1,
                      [mainT.sample EXCEPT !.memTotal = DecodeNumber(@),
                                           !.bytesSent = DecodeNumber(@),
                                           !.uptime = DecodeNumber(@)])
    /\ UNCHANGED <<conn, connections, status, now, resp, crashed, push, mutex>>
    /\ UNCHANGED <<proc, aconn, attempts, thr, link, reachable, wire, lost, calls, cfg>>

\* dashboard.go lines 906-953: handleMetricsMessage up to the insert; it
\* returns without a record when Unmarshal fails.
MetricsFrameHandled ==
    /\ Len(journal.rcvd) = 1
    /\ Len(journal.stored) = 0
    /\ LET md == DecodeMetricData(journal.rcvd[1][2])
       IN journal' = IF md.err THEN journal ELSE CreateRecord(journal, 1, md.data)
    /\ UNCHANGED <<conn, connections, status, now, resp, crashed, push>>
    /\ UNCHANGED <<avars, mutex>>

CodecNext == MetricsFrameRead \/ MetricsFrameHandled

CodecSpec == CodecInit /\ [][CodecNext]_vars

\* C17: the MetricData the collector decodes from a "metrics" envelope has
\* the same cpu, memory, network and uptime values as the SystemMetrics the
\* agent sent, for every value of every field.
C17_RoundTripIdentical ==
    Len(journal.stored) = 1 => journal.stored[1][2] = mainT.sample

\* The goroutines that run a loop of the given kind after a step.
Heartbeats(th) == {t \in Threads : th[t].pc \in {"hb", "hb_write"}}

ListenersOn(th, ac) ==
    {t \in Threads : \/ th[t].pc \in {"l_start", "l_enter"}
                     \/ (th[t].pc = "listen" /\ th[t].ref = ac)}

\* C18: when a reconnection succeeds (Connect returns nil inside
\* handleDisconnection), exactly one heartbeat loop and exactly one inbound
\* listener run against the new connection, whichever loop had detected
\* the failure.
C18_BothLoopsAfterReconnect ==
    [][(\E t \in Threads : thr[t].pc = "c_reset" /\ thr'[t].pc = "hb")
          => /\ Cardinality(Heartbeats(thr')) = 1
             /\ Cardinality(ListenersOn(thr', aconn')) = 1]_vars

\* The goroutine t observes a transport error in this step: its read
\* returns an error, or its ping on the current connection fails.
SeesError(t) ==
    /\ thr'[t] # thr[t]
    /\ \/ thr[t].pc = "listen" /\ link[thr[t].ref] = "down"
       \/ thr[t].pc = "hb_write" /\ aconn # NoAConn /\ link[aconn] = "down"

\* C19: a loop that observes a transport error enters handleDisconnection
\* even while the other loop is in one, and every execution increments the
\* shared counter from the value it loaded and goes on to Connect; so two
\* executions of one Client are in progress at once when both loops see
\* the error on the same connection.
C19_BothEnterHandleDisconnection ==
    [][\A t \in Threads :
          /\ SeesError(t) => thr'[t].pc = "hd_nil"
          /\ (thr[t].pc = "hd_store" /\ thr'[t] # thr[t])
                => attempts' = thr[t].reg + 1 /\ thr'[t].pc = "hd_delay"
          /\ (thr[t].pc \in {"hd_delay", "hd_sleep"} /\ thr'[t] # thr[t])
                => thr'[t].pc \in {"hd_sleep", "hd_connect"}]_vars

\* C19 happens: both loops saw the error on connection 1, both executions
\* have incremented the counter and both are about to call Connect.
C19_Witness ==
    /\ thr["L"].pc = "hd_connect"
    /\ thr["H"].pc = "hd_connect"
    /\ calls = 2
    /\ attempts \in {1, 2}
    /\ link[1] = "gone"
    /\ link[2] = "free"

\* C20: when a goroutine of a reconnect sequence calls Connect, the time
\* it has slept since its previous Connect attempt is the one delay
\* computed for this attempt, and so at most the maximum delay.
C20_WaitIsLaterDelay ==
    \A t \in Threads :
       thr[t].pc = "hd_connect" =>
          /\ thr[t].slept = thr[t].delay
          /\ thr[t].slept <= MaxReconnectDelay

\* C21: when a Connect returns nil the client is connected and
\* c.reconnectAttempts is 0; when a Connect returns an error, c.conn and
\* c.reconnectAttempts are what they were.
C21_ConnectEffect ==
    [][\A t \in Threads :
          /\ (thr[t].pc = "c_reset" /\ thr'[t].pc = "hb")
                => aconn' # NoAConn /\ attempts' = 0
          /\ (thr[t].pc = "hd_connect" /\ thr'[t].pc = "retry_sleep")
                => aconn' = aconn /\ attempts' = attempts]_vars

\* C22: a loop whose read or ping write returns a transport error calls
\* handleDisconnection; the first step of that call leaves the client
\* disconnected, the call reaches its Connect only through that step and
\* the backoff, and the goroutine never resumes the loop it left: it ends,
\* or runs the heartbeat loop started after a successful Connect.
C22_DisconnectedThenReconnect ==
    [][\A t \in Threads :
          /\ SeesError(t) => thr'[t].pc = "hd_nil"
          /\ (thr[t].pc = "hd_nil" /\ thr'[t] # thr[t])
                => aconn' = NoAConn /\ thr'[t].pc = "hd_load"
          /\ (thr'[t].pc = "hd_connect" /\ thr[t].pc # "hd_connect")
                => thr[t].pc = "hd_sleep"
          /\ (thr'[t].pc = "hd_sleep" /\ thr[t].pc # "hd_sleep")
                => thr[t].pc = "hd_delay"
          /\ (thr'[t].pc = "hd_delay" /\ thr[t].pc # "hd_delay")
                => thr[t].pc = "hd_store"
          /\ (thr'[t].pc = "hd_store" /\ thr[t].pc # "hd_store")
                => thr[t].pc = "hd_load"
          /\ (thr'[t].pc = "hd_load" /\ thr[t].pc # "hd_load")
                => thr[t].pc = "hd_nil"
          /\ thr[t].pc \in HdPcs \cup {"retry_sleep"}
                => thr'[t].pc \in HdPcs \cup {"retry_sleep", "hb"}]_vars

\* C22 happens: the heartbeat's ping failed, its handleDisconnection has
\* left the client disconnected and is about to dial, while the listener
\* is still blocked in its read.
C22_Witness ==
    /\ thr["H"].pc = "hd_connect"
    /\ thr["L"].pc = "listen"
    /\ aconn = NoAConn
    /\ calls = 1

\* C23: when the reader of a connection has ended on a transport error
\* and run its teardown, the connection is not in the registry and its
\* outbound queue is closed (so that its writer sends a close frame and
\* exits), for every connection, superseded or evicted ones included.
C23_ReaderTeardownClosesQueue ==
    [][\A c \in ConnIds :
          (conn[c].rpc = "unreg" /\ conn[c].rerr = "io" /\ conn'[c].rpc # "unreg")
             => /\ conn'[c].sendClosed
                /\ connections'[conn[c].server] # c]_vars

\* -------------------------------------------------------- SessionLiveSpec
\* SessionLiveSpec: one session over unbounded time.  Every test on time in
\* the code compares a difference of two instants with a constant, so when
\* the clock is at its bound a further tick moves every recorded instant
\* back by one step instead of moving the clock on; an instant more than
\* MaxTime in the past stays at 0, which is stale and expired already.
Earlier(t) == IF t > TickStep THEN t - TickStep ELSE 0

TickWrap ==
    /\ ~crashed
    /\ now + TickStep > MaxTime
    /\ conn' = [c \in ConnIds |->
                  [conn[c] EXCEPT !.lastPing = Earlier(@), !.deadline = Earlier(@)]]
    /\ UNCHANGED <<connections, status, now, resp, crashed, push>>
    /\ UNCHANGED <<avars, journal, mutex>>

\* The steps the reader goroutine of connection c takes by itself.
ReaderStep(c) ==
    \/ ReaderStart(c)
    \/ ReadError(c)
    \/ Dispatch(c, TRUE)
    \/ LastSeen(c)
    \/ unregisterConnection(c)
    \/ ReaderClose(c)

LiveFrames == { Frame("ok", "metrics", "object", Sample(500, 400, 300)) }

SessionLiveNext ==
    \/ HandleAgentConnection(1, "t1", FALSE, TRUE)
    \/ Register(1)
    \/ StartLoops(1)
    \/ PongHandler(1)
    \/ \E f \in LiveFrames : ReadMessage(1, f)
    \/ ReaderStep(1)
    \/ \E ok \in BOOLEAN : WriterPing(1, ok)
    \/ WriterQueueClosed(1)
    \/ cleanupStaleConnections
    \/ Tick
    \/ TickWrap
    \/ TransportFail(1)

\* The clock goes on and a goroutine that can take a step takes it.
SessionLiveSpec ==
    /\ Init
    /\ [][SessionLiveNext]_vars
    /\ WF_vars(Tick \/ TickWrap)
    /\ WF_vars(ReaderStep(1))
    /\ WF_vars(Register(1) \/ StartLoops(1))

\* C24: once the writer of a connection has exited on a write error (its
\* queue is not closed), the reader of the connection terminates too and
\* the registry has no entry for the connection.
C24_WriteErrorEndsSession ==
    (conn[1].wpc = "done" /\ ~conn[1].sendClosed)
       ~> (/\ Created(1)
           /\ conn[1].rpc = "done"
           /\ connections[conn[1].server] # 1)

\* C25: the step in which the reader receives an envelope (of any type) or
\* a liveness signal leaves the connection's lastPing at the current time.
C25_LastPingOnEveryReceipt ==
    [][\A c \in ConnIds :
          /\ (conn[c].rpc = "read" /\ conn'[c].rpc = "dispatch")
                => conn'[c].lastPing = now
          /\ (conn[c].rpc = "read" /\ conn'[c].deadline # conn[c].deadline)
                => conn'[c].lastPing = now]_vars

\* C26: the step in which the reader receives an envelope or a liveness
\* signal sets the read deadline to 60 s after the current time, so that
\* the deadline passes only 60 s after the last receipt.
C26_DeadlineResetOnEveryReceipt ==
    [][\A c \in ConnIds :
          /\ (conn[c].rpc = "read" /\ conn'[c].rpc = "dispatch")
                => conn'[c].deadline = now + ReadDeadline
          /\ (conn[c].rpc = "read" /\ conn'[c].lastPing # conn[c].lastPing)
                => conn'[c].deadline = now + ReadDeadline]_vars

\* ------------------------------------------------------------- NotifySpec
\* NotifySpec: one session whose envelopes are alerts that decode, alerts
\* that do not, and metrics; inserts fail or succeed; every notification
\* task ends sent, failed, or skipped (no SMTP credentials, no recipient).
MaxEnvelopes == 3

NotifyFrames ==
    { Frame("ok", "alert", "object", NoSample),
      Frame("ok", "alert", "badfield", NoSample),
      Frame("ok", "metrics", "object", Sample(500, 400, 300)) }

\* Lines 1014-1045: one sendEmailAlert goroutine runs to its end.
sendEmailAlert(i, outcome) ==
    /\ ~crashed
    /\ i \in 1..Len(journal.mails)
    /\ journal.mails[i].state = "started"
    /\ journal' = [journal EXCEPT !.mails[i].state = outcome]
    /\ UNCHANGED <<conn, connections, status, now, resp, crashed, push>>
    /\ UNCHANGED <<avars, mutex>>

NotifyNext ==
    \/ HandleAgentConnection(1, "t1", FALSE, TRUE)
    \/ Register(1)
    \/ StartLoops(1)
    \/ ReaderStart(1)
    \/ \E f \in NotifyFrames :
          /\ Len(journal.rcvd) < MaxEnvelopes
          /\ ReadMessage(1, f)
    \/ ReadError(1)
    \/ \E dbOK \in BOOLEAN : Dispatch(1, dbOK)
    \/ LastSeen(1)
    \/ unregisterConnection(1)
    \/ ReaderClose(1)
    \/ TransportFail(1)
    \/ \E i \in 1..MaxEnvelopes, outcome \in {"sent", "failed", "skipped"} :
          sendEmailAlert(i, outcome)

NotifySpec == OrderInit /\ [][NotifyNext]_vars

StoredAlerts(j) == SelectSeq(j.stored, LAMBDA r : r[2].type = "alert")

\* C27: there is one notification task per stored alert and none for an
\* alert that was not stored; a task is started by the handler of its
\* alert, which returns to the reader while the task is still running;
\* a task that has ended, failed ones included, is never run again.
C27_NotificationFireAndForget ==
    [][/\ Len(journal'.mails) = Len(StoredAlerts(journal'))
       /\ Len(journal'.mails) >= Len(journal.mails)
       /\ Len(journal'.mails) > Len(journal.mails)
             => /\ conn[1].rpc = "dispatch" /\ conn[1].msg.type = "alert"
                /\ conn'[1].rpc = "lastseen"
                /\ Len(journal'.mails) = Len(journal.mails) + 1
                /\ journal'.mails[Len(journal'.mails)].state = "started"
       /\ \A i \in 1..Len(journal.mails) :
             journal.mails[i].state # "started"
                => journal'.mails[i] = journal.mails[i]]_vars

\* C27 happens: the reader has read the envelope after a stored alert
\* while that alert's notification is still running, the notification of
\* an earlier alert has failed, and an alert whose insert failed has none.
C27_Witness ==
    /\ Len(journal.rcvd) = 3
    /\ \A i \in 1..3 : journal.rcvd[i][2].type = "alert" /\ journal.rcvd[i][2].data = "object"
    /\ Len(journal.stored) = 2
    /\ Len(journal.mails) = 2
    /\ journal.mails[1].state = "failed"
    /\ journal.mails[2].state = "started"
    /\ conn[1].rpc = "read"

\* The reader's handler of a payload that decodes ends without a stored
\* record in this step: CreateMetric or CreateAlert returned an error.
StorageFails ==
    /\ conn[1].rpc = "dispatch" /\ conn'[1].rpc # "dispatch"
    /\ conn[1].msg.type \in {"metrics", "alert"} /\ conn[1].msg.data = "object"
    /\ journal'.stored = journal.stored

NotificationFails ==
    \E i \in 1..Len(journal.mails) :
        journal.mails[i].state = "started" /\ journal'.mails[i].state = "failed"

\* What of a connection an error could tear down or report on.
Session(cn, reg) ==
    <<reg, cn.transport, cn.sendClosed, cn.queue, cn.wpc>>

\* C28: a step in which an insert fails or a notification fails leaves the
\* connection registered, its transport and outbound queue as they were
\* and the recorded status unchanged; after a failed insert the reader
\* goes on to the last-seen update and from there to the next read.
C28_CollaboratorErrorKeepsSession ==
    [][/\ StorageFails
             => /\ Session(conn'[1], connections') = Session(conn[1], connections)
                /\ status' = status
                /\ conn'[1].rpc = "lastseen"
       /\ NotificationFails
             => /\ Session(conn'[1], connections') = Session(conn[1], connections)
                /\ conn'[1].rpc = conn[1].rpc
                /\ status' = status
       /\ (conn[1].rpc = "lastseen" /\ conn'[1].rpc # "lastseen")
             => conn'[1].rpc = "read"]_vars

\* C28 happens: an alert was stored and its notification failed, the
\* insert of the metrics after it failed, and the reader has read a third
\* envelope on the connection, which is still registered and open.
C28_Witness ==
    /\ Len(journal.rcvd) = 3
    /\ journal.rcvd[1][2].type = "alert"
    /\ journal.rcvd[2][2].type = "metrics"
    /\ Len(journal.stored) = 1
    /\ Len(journal.mails) = 1
    /\ journal.mails[1].state = "failed"
    /\ conn[1].rpc = "dispatch"
    /\ connections[1] = 1
    /\ conn[1].transport = "open"
    /\ ~conn[1].sendClosed

\* --------------------------------------------------------------- LockSpec
\* LockSpec: the accesses to h.connections at the grain of h.mutex.  Every
\* operation on the map is three steps: its Lock or RLock returns, it
\* accesses the map, it unlocks.  The clock stands still, so the sweeps
\* of the reaper find nothing stale; at most MaxQueued messages wait in a
\* queue.
MaxQueued == 1

LockModeSendUnlocked(p) ==
    CASE p[1] \in {"register", "unregister", "cleanup"} -> "W"
      [] p[1] = "send" -> "none"
      [] OTHER -> "R"

\* The call on h.mutex that opens the region of p: Lock (lines 822, 1275,
\* 1304) or RLock (lines 1320, 1350, 1362).
LockMode(p) ==
    CASE p[1] \in {"register", "unregister", "cleanup"} -> "W"
      [] OTHER -> "R"

\* The goroutine p is at the statement that opens its region.
AtLock(p) ==
    CASE p[1] = "register" -> conn[p[2]].hpc = "register"
      [] p[1] = "unregister" -> conn[p[2]].rpc = "unreg"
      [] p[1] = "send" -> push.pc = "idle"
      [] OTHER -> TRUE

\* sync.RWMutex: Lock returns when nobody holds the mutex, RLock when no
\* writer holds it.
Lock(p) ==
    /\ ~crashed
    /\ mutex.phase[p] = "out"
    /\ AtLock(p)
    /\ CASE LockMode(p) = "W" ->
              /\ mutex.w = NoHolder /\ mutex.r = {}
              /\ mutex' = [mutex EXCEPT !.w = p, !.phase[p] = "in"]
         [] LockMode(p) = "R" ->
              /\ mutex.w = NoHolder
              /\ mutex' = [mutex EXCEPT !.r = @ \cup {p}, !.phase[p] = "in"]
         [] OTHER -> mutex' = [mutex EXCEPT !.phase[p] = "in"]
    /\ UNCHANGED <<conn, connections, status, now, resp, crashed, push, journal>>
    /\ UNCHANGED avars

\* Unlock or RUnlock, explicit (lines 824, 1322) or deferred.
Unlock(p) ==
    /\ ~crashed
    /\ mutex.phase[p] = "done"
    /\ mutex' = [mutex EXCEPT !.w = IF @ = p THEN NoHolder ELSE @,
                              !.r = @ \ {p},
                              !.phase[p] = "out"]
    /\ UNCHANGED <<conn, connections, status, now, resp, crashed, push, journal>>
    /\ UNCHANGED avars

\* Lines 1349-1367: GetConnectedAgents and IsAgentConnected read the map
\* and return what they read.
ReadRegistry(p) ==
    /\ ~crashed
    /\ p[1] \in {"agents", "isconnected"}
    /\ mutex' = Accessed(mutex, p)
    /\ mutex' # mutex
    /\ UNCHANGED <<conn, connections, status, now, resp, crashed, push, journal>>
    /\ UNCHANGED avars

Phase(p) == mutex.phase[p]

LockNext ==
    \/ \E c \in ConnIds : HandleAgentConnection(c, "t1", FALSE, TRUE)
    \/ \E p \in LockProcs : Lock(p)
    \/ \E p \in LockProcs : Unlock(p)
    \/ \E c \in ConnIds : Phase(<<"register", c>>) = "in" /\ Register(c)
    \/ \E c \in ConnIds : Phase(<<"register", c>>) = "out" /\ StartLoops(c)
    \/ \E c \in ConnIds : ReaderStart(c)
    \/ \E c \in ConnIds : ReadError(c)
    \/ \E c \in ConnIds : Phase(<<"unregister", c>>) = "in" /\ unregisterConnection(c)
    \/ \E c \in ConnIds : Phase(<<"unregister", c>>) = "out" /\ ReaderClose(c)
    \/ Phase(<<"cleanup", 0>>) = "in" /\ cleanupStaleConnections
    \/ \E s \in Servers : Phase(<<"send", 0>>) = "in" /\ SendLookup(s, TRUE)
    \/ /\ Phase(<<"send", 0>>) = "out"
       /\ push.pc = "enqueue"
       /\ conn[push.c].queue < MaxQueued
       /\ SendEnqueue
    \/ \E c \in ConnIds : WriterSend(c, TRUE)
    \/ \E p \in LockProcs : ReadRegistry(p)
    \/ \E c \in ConnIds : TransportFail(c)

LockSpec == Init /\ [][LockNext]_vars

\* What the operation of p does to the map (lines 823, 1279, 1312 write
\* it; lines 1321, 1353-1354, 1365 read it).
Mutates(p) == p[1] \in {"register", "unregister", "cleanup"}

InRegion(p) == mutex.phase[p] # "out"

\* C29: a goroutine between the lock and the unlock of an operation that
\* writes h.connections holds h.mutex exclusively, one of an operation that
\* reads it holds h.mutex at least shared, and no goroutine is in such a
\* region while another is in a writing one.
C29_RegistryAccessUnderLock ==
    \A p \in LockProcs :
       InRegion(p) =>
          /\ Mutates(p) => (mutex.w = p /\ mutex.r = {})
          /\ ~Mutates(p) => (p \in mutex.r \/ mutex.w = p)
          /\ \A q \in LockProcs \ {p} : InRegion(q) => (~Mutates(p) /\ ~Mutates(q))

\* C29 happens: two lookups hold the mutex shared at once, one of them the
\* lookup of SendMessageToAgent, while a registration and a teardown wait
\* at their Lock.
C29_Witness ==
    /\ mutex.phase[<<"send", 0>>] = "in"
    /\ mutex.phase[<<"isconnected", 0>>] = "in"
    /\ mutex.r = {<<"send", 0>>, <<"isconnected", 0>>}
    /\ conn[2].hpc = "register"
    /\ conn[1].rpc = "unreg"
    /\ connections[1] = 1

\* C30: the teardown of connection c changes the registry entry of its
\* server and the server's status only if that entry is c itself.
C30_TeardownOnlyOwnEntry ==
    [][\A c \in ConnIds :
          (conn[c].rpc = "unreg" /\ conn'[c].rpc # "unreg"
             /\ connections[conn[c].server] # c)
             => /\ connections' = connections
                /\ status' = status]_vars

\* --------------------------------------------------------------------- C31
\* C31: SendMessageToAgent never sends on an outbound queue that has been
\* closed: whenever its select on conn.send is executed, in whatever
\* interleaving with unregisterConnection, the queue of the connection it
\* looked up is still open.
C31_NoSendOnClosedQueue ==
    [][(push.pc = "enqueue" /\ push'.pc = "idle" /\ push.marshal)
          => ~conn[push.c].sendClosed]_vars

\* --------------------------------------------------------------------- C32
\* Every connection made for the server ID has ended: there was one, and
\* the reader of each has left its teardown.
AllTornDown(s) ==
    /\ \E c \in ConnIds : conn[c].server = s
    /\ \A c \in ConnIds : conn[c].server = s => conn[c].rpc = "done"

\* C32: once every connection of a server ID has been torn down and the
\* registry holds no entry for it, the recorded status of the server is
\* "offline": no interleaving of the reaper's eviction with a reader that
\* is still dispatching leaves it "online" or "warning".
C32_OfflineOnceTornDown ==
    \A s \in Servers :
        (AllTornDown(s) /\ connections[s] = NoConn) => status[s] = "offline"

\* --------------------------------------------------------------------- C33
\* C33: handleDisconnection sets c.conn to nil only when the connection
\* c.conn holds at that moment is one whose transport has failed: a
\* handleDisconnection that an error on an older connection started never
\* discards a newer connection that is healthy.
C33_DropsOnlyFailedConnection ==
    [][\A t \in Threads :
          (thr[t].pc = "hd_nil" /\ thr'[t].pc = "hd_load" /\ aconn # NoAConn)
              => link[aconn] = "down"]_vars

\* --------------------------------------------------------------------- C34
\* C34: SendMetrics, SendAlert and the heartbeat loop never use a nil
\* connection: while one of them has passed its nil check and is about to
\* write on c.conn, c.conn is not nil.
C34_NoNilBetweenCheckAndWrite ==
    proc = "running" =>
        /\ mainT.pc \in {"m_write", "a_write"} => aconn # NoAConn
        /\ \A t \in Threads : thr[t].pc = "hb_write" => aconn # NoAConn

\* --------------------------------------------------------------------- C35
\* WriteSpec: the writers of one healthy connection, with the write calls
\* of the collection loop, of the heartbeat loop and of Close taken as
\* what they are, calls that begin and return: gorilla's WriteJSON and
\* WriteMessage frame the message and block on the socket in between.
\* Lines 128: c.conn is read and WriteMessage(PingMessage) is entered.
HeartbeatWriteBegin(t) ==
    /\ proc = "running"
    /\ thr[t].pc = "hb_write"
    /\ IF aconn = NoAConn
       THEN proc' = "panic" /\ UNCHANGED thr
       ELSE thr' = [thr EXCEPT ![t].pc = "hb_writing", ![t].ref = aconn] /\ UNCHANGED proc
    /\ UNCHANGED <<aconn, attempts, link, reachable, mainT, wire, lost, calls>>
    /\ UNCHANGED <<cvars, cfg>>

\* Lines 128-132: WriteMessage returns; an error ends the loop in
\* handleDisconnection.
HeartbeatWriteEnd(t) ==
    /\ proc = "running"
    /\ thr[t].pc = "hb_writing"
    /\ thr' = [thr EXCEPT ![t].pc = IF link[thr[t].ref] = "up" THEN "hb"
                                     ELSE OnTransportError(thr, t),
                         ![t].ref = NoAConn]
    /\ link' = Collect(link, aconn, thr')
    /\ UNCHANGED <<proc, aconn, attempts, reachable, mainT, wire, lost, calls>>
    /\ UNCHANGED <<cvars, cfg>>

\* main.go lines 257-259: the interrupt is taken between two cycles; main
\* returns and its deferred wsClient.Close() runs (line 199).
Interrupt ==
    /\ proc = "running"
    /\ mainT.pc = "wait"
    /\ mainT' = [mainT EXCEPT !.pc = "x_check"]
    /\ UNCHANGED <<proc, aconn, attempts, thr, link, reachable, wire, lost, calls>>
    /\ UNCHANGED <<cvars, cfg>>

\* Lines 106-109: Close returns at once when c.conn is nil, and main with
\* it: the process ends.
CloseCheck ==
    /\ proc = "running"
    /\ mainT.pc = "x_check"
    /\ IF NotConnected(aconn)
       THEN proc' = "stopped" /\ mainT' = [mainT EXCEPT !.pc = "none"]
       ELSE mainT' = [mainT EXCEPT !.pc = "x_write"] /\ UNCHANGED proc
    /\ UNCHANGED <<aconn, attempts, thr, link, reachable, wire, lost, calls>>
    /\ UNCHANGED <<cvars, cfg>>

\* The pc of main inside a write call entered from pc.
InWrite(pc) ==
    CASE pc = "m_write" -> "m_writing"
      [] pc = "a_write" -> "a_writing"
      [] pc = "x_write" -> "x_writing"

\* Lines 87, 103, 113: c.conn is read and WriteJSON, or WriteMessage of
\* the close frame, is entered on it.
MainWriteBegin ==
    /\ proc = "running"
    /\ mainT.pc \in {"m_write", "a_write", "x_write"}
    /\ IF aconn = NoAConn
       THEN proc' = "panic" /\ UNCHANGED mainT
       ELSE mainT' = [mainT EXCEPT !.pc = InWrite(mainT.pc)] /\ UNCHANGED proc
    /\ UNCHANGED <<aconn, attempts, thr, link, reachable, wire, lost, calls>>
    /\ UNCHANGED <<cvars, cfg>>

\* Line 87: WriteJSON of the metrics envelope returns.
SendMetricsWriteEnd ==
    /\ proc = "running"
    /\ mainT.pc = "m_writing"
    /\ mainT' = [mainT EXCEPT !.alerts = CheckAlerts(mainT.sample, cfg),
                              !.pc = NextAlertPc(CheckAlerts(mainT.sample, cfg)),
                              !.err = IF link[aconn] = "up" THEN "none" ELSE "write"]
    /\ wire' = IF link[aconn] = "up" THEN wire \cup {Item("metrics", mainT.cycle)} ELSE wire
    /\ UNCHANGED <<proc, aconn, attempts, thr, link, reachable, lost, calls>>
    /\ UNCHANGED <<cvars, cfg>>

\* Line 103: WriteJSON of the alert envelope returns.
SendAlertWriteEnd ==
    /\ proc = "running"
    /\ mainT.pc = "a_writing"
    /\ mainT' = [mainT EXCEPT !.alerts = Tail(@), !.pc = NextAlertPc(Tail(mainT.alerts)),
                              !.err = IF link[aconn] = "up" THEN "none" ELSE "write"]
    /\ wire' = IF link[aconn] = "up"
               THEN wire \cup {Item(Head(mainT.alerts).type, mainT.cycle)} ELSE wire
    /\ UNCHANGED <<proc, aconn, attempts, thr, link, reachable, lost, calls>>
    /\ UNCHANGED <<cvars, cfg>>

\* Lines 113-115: the close frame is written, c.conn.Close() closes the
\* transport, main returns and the process ends.
CloseWriteEnd ==
    /\ proc = "running"
    /\ mainT.pc = "x_writing"
    /\ link' = [link EXCEPT ![aconn] = "down"]
    /\ mainT' = [mainT EXCEPT !.pc = "none"]
    /\ proc' = "stopped"
    /\ UNCHANGED <<aconn, attempts, thr, reachable, wire, lost, calls>>
    /\ UNCHANGED <<cvars, cfg>>

WriteNext ==
    \/ StartupConnect
    \/ \E t \in Threads : ListenStart(t)
    \/ \E t \in Threads : ListenEnter(t)
    \/ \E t \in Threads : ListenMessage(t)
    \/ \E t \in Threads : HeartbeatTick(t)
    \/ \E t \in Threads : HeartbeatWriteBegin(t)
    \/ \E t \in Threads : HeartbeatWriteEnd(t)
    \/ \E ok \in BOOLEAN, m \in AgentSamples : CollectTick(ok, m)
    \/ MetricsIsConnected
    \/ SendMetricsCheck
    \/ AlertIsConnected
    \/ SendAlertCheck
    \/ MainWriteBegin
    \/ SendMetricsWriteEnd
    \/ SendAlertWriteEnd
    \/ Interrupt
    \/ CloseCheck
    \/ CloseWriteEnd

WriteSpec == Init /\ [][WriteNext]_vars

\* The goroutines that are inside a write call on the connection id.
Writers(id) ==
    { t \in Threads : thr[t].pc = "hb_writing" /\ thr[t].ref = id }
    \cup (IF mainT.pc \in {"m_writing", "a_writing", "x_writing"} /\ aconn = id
          THEN {"main"} ELSE {})

\* C35: at most one agent goroutine is writing to the agent's transport at
\* any time: the writes of SendMetrics and SendAlert, the heartbeat's ping
\* writes and the close-frame write of Close on one connection never
\* overlap.
C35_OneWriterAtATime ==
    \A id \in AConnIds : Cardinality(Writers(id)) <= 1

\* --------------------------------------------------------------------- C36
\* C36: at any time at most one heartbeat loop is active for the Client:
\* over any sequence of connection losses and reconnections, whichever
\* loop detects them, no more than one goroutine is inside StartHeartbeat's
\* loop.
C36_AtMostOneHeartbeat ==
    proc = "running" => Cardinality(Heartbeats(thr)) <= 1

\* --------------------------------------------------------------------- C37
\* WriterLiveSpec: one session with its writer, its queue and the push
\* interface, over unbounded time.  A write on a transport the collector
\* has not closed is taken to succeed: the case in which the writer lives
\* longest.
WriterLiveNext ==
    \/ HandleAgentConnection(1, "t1", FALSE, TRUE)
    \/ Register(1)
    \/ StartLoops(1)
    \/ PongHandler(1)
    \/ \E f \in LiveFrames : ReadMessage(1, f)
    \/ ReaderStep(1)
    \/ WriterPing(1, TRUE)
    \/ WriterSend(1, TRUE)
    \/ WriterQueueClosed(1)
    \/ SendLookup(1, TRUE)
    \/ /\ push.pc = "enqueue"
       /\ conn[push.c].queue < MaxQueued
       /\ SendEnqueue
    \/ cleanupStaleConnections
    \/ Tick
    \/ TickWrap
    \/ TransportFail(1)

\* The goroutines of the handshake get to run (`go h.handleAgentWrites`
\* is executed) and the writer's 54 s ticker fires.
WriterLiveSpec ==
    /\ Init
    /\ [][WriterLiveNext]_vars
    /\ WF_vars(StartLoops(1))
    /\ WF_vars(WriterPing(1, TRUE))

\* The connection is dead for the collector: its reader has terminated, or
\* the reaper has evicted it (closed its transport).
Dead(c) == conn[c].rpc = "done" \/ conn[c].transport = "closed"

\* C37: once the reader of a connection has terminated or the reaper has
\* evicted the connection, its writer loop eventually terminates, whether
\* or not its outbound queue was closed.
C37_WriterEventuallyTerminates ==
    Dead(1) ~> conn[1].wpc = "done"

\* C37 witness: an evicted connection whose reader found no entry to
\* unregister, so that its queue was never closed, and whose writer has
\* terminated all the same.
C37_Witness ==
    /\ conn[1].rpc = "done"
    /\ conn[1].transport = "closed"
    /\ ~conn[1].sendClosed
    /\ conn[1].wpc = "done"

\* --------------------------------------------------------------------- C38
\* The step executes close(agentConn.send) of connection c (line 1281):
\* unregisterConnection of c found an entry for the server ID.
ClosesQueue(c) ==
    /\ conn[c].rpc = "unreg"
    /\ conn'[c].rpc # "unreg"
    /\ UnregisterHit(connections, conn[c].server, c)

\* C38: the outbound queue of a connection is closed at most once: over
\* every interleaving of registrations, reader teardowns and reaper sweeps
\* for one server ID, no step closes a queue that is closed already, and no
\* goroutine of the collector panics.
C38_QueueClosedAtMostOnce ==
    [][/\ \A c \in ConnIds : ClosesQueue(c) => ~conn[c].sendClosed
       /\ ~crashed']_vars

\* C38 witness: two connections of one server ID, both registered and both
\* torn down by their readers, each queue closed by its own teardown.
C38_Witness ==
    /\ conn[1].server = conn[2].server
    /\ conn[1].rpc = "done" /\ conn[2].rpc = "done"
    /\ conn[1].sendClosed /\ conn[2].sendClosed
    /\ ~crashed

\* --------------------------------------------------------------------- C39
\* AttribSpec: two sessions of two servers whose envelopes carry a token
\* and a server_name of their own, those of the connection or of the other
\* server.
EnvelopeTokens == {"t1", "t2"}

EnvelopeNames == {"web-1", "web-2"}

\* part_000 lines 475-481: models.AgentMessage with its token and
\* server_name fields.
Envelope(type, sample, token, name) ==
    [json |-> "ok", type |-> type, data |-> "object", sample |-> sample,
     token |-> token, server_name |-> name]

\* The name each token's agent is configured with.
NameOf(t) == IF t = "t1" THEN "web-1" ELSE "web-2"

AttribFrames ==
    { Envelope(ty, Sample(925, 400, 300), t, NameOf(t)) :
        ty \in {"metrics", "alert"}, t \in EnvelopeTokens }

AttribNext ==
    \/ HandleAgentConnection(1, "t1", FALSE, TRUE)
    \/ HandleAgentConnection(2, "t2", FALSE, TRUE)
    \/ \E c \in ConnIds : Register(c)
    \/ \E c \in ConnIds : StartLoops(c)
    \/ \E c \in ConnIds : ReaderStart(c)
    \/ \E c \in ConnIds, f \in AttribFrames :
          /\ Len(journal.rcvd) < MaxEnvelopes
          /\ ReadMessage(c, f)
    \/ \E c \in ConnIds, dbOK \in BOOLEAN : Dispatch(c, dbOK)
    \/ \E c \in ConnIds : LastSeen(c)
    \/ \E c \in ConnIds : ReadError(c)
    \/ \E c \in ConnIds : unregisterConnection(c)
    \/ \E c \in ConnIds : ReaderClose(c)
    \/ \E c \in ConnIds : TransportFail(c)

AttribSpec == OrderInit /\ [][AttribNext]_vars

\* The envelope m with any other token and server_name in it.
Relabelled(m) ==
    { [m EXCEPT !.token = t, !.server_name = n] : t \in EnvelopeTokens, n \in EnvelopeNames }

\* The rows a step has added.
NewRows == SubSeq(journal'.rows, Len(journal.rows) + 1, Len(journal'.rows))

\* C39: every metric and alert the collector records and every status
\* update it makes goes under the server ID bound to the connection at the
\* handshake, never under the token or server_name of the envelope: a
\* handler step of connection c adds rows of conn[c].server only, it and
\* the teardown change the status of no other server, and the same step on
\* an envelope that differs only in its token and server_name adds the
\* same rows and leaves the same statuses.
C39_AttributedToHandshakeIdentity ==
    [][\A c \in ConnIds :
          LET m == conn[c].msg
              s == conn[c].server
          IN /\ (conn[c].rpc = "dispatch" /\ conn'[c].rpc # "dispatch")
                   => /\ \A i \in 1..Len(NewRows) : NewRows[i].server = s
                      /\ \A x \in Servers \ {s} : status'[x] = status[x]
                      /\ \A m2 \in Relabelled(m) : \E dbOK \in BOOLEAN :
                            /\ status' = HandlerStatus(status, conn[c], m2, dbOK)
                            /\ journal'.rows = StoreMessage(journal, c, m2, dbOK).rows
             /\ (conn[c].rpc = "lastseen" /\ conn'[c].rpc # "lastseen")
                   => /\ status'[s] = "online"
                      /\ \A x \in Servers \ {s} : status'[x] = status[x]
             /\ (conn[c].rpc = "unreg" /\ conn'[c].rpc # "unreg")
                   => \A x \in Servers \ {s} : status'[x] = status[x]]_vars

\* C39 witness: the connection of server 1 has sent a metrics envelope
\* that names the token of server 2; the row is stored under server 1, the
\* status of server 1 is the sample's and server 2 is still offline.
C39_Witness ==
    /\ conn[1].server = 1
    /\ \E i \in 1..Len(journal.stored) :
          /\ journal.stored[i][1] = 1
          /\ journal.stored[i][2].type = "metrics"
          /\ journal.stored[i][2].token = "t2"
          /\ journal.rows[i] = Row(1, journal.stored[i][2])
    /\ status[1] = "warning"
    /\ status[2] = "offline"

====
